---- MODULE Spec2Model ----
(***************************************************************************)
(* Model of rsq_aws.redshift.boto_connection.BotoConnection: the submit /  *)
(* poll / fetch sequence of query() against the redshift-data API and the  *)
(* decoding of a get_statement_result payload into a DataFrame.            *)
(***************************************************************************)
EXTENDS Integers, Sequences, FiniteSets, TLC

\* ------------------------------------------------------------------ bounds
MaxLen == 3      \* longest scripted sequence of describe_statement responses
MaxRows == 2     \* most rows in a generated Records list

MaxDecodings == 2   \* most decodings of one payload
MaxCalls == MaxLen + 4   \* longest call log of a query() that leaves the loop

\* ------------------------------------------------- warehouse (redshift-data)
PendingStatuses == {"SUBMITTED", "PICKED", "STARTED", "RUNNING"}
TerminalStatuses == {"FINISHED", "FAILED", "ABORTED"}
Statuses == PendingStatuses \cup TerminalStatuses

Errors == {"boom", "Query execution failed"}
ColumnNames == {"col1", "col2"}

\* A Python scalar: its type and its repr.
PyStr(s) == [type |-> "str", repr |-> s]
PyInt(s) == [type |-> "int", repr |-> s]
PyBool(s) == [type |-> "bool", repr |-> s]
PyNone == [type |-> "NoneType", repr |-> "None"]

\* A wrapped value is a dict with one item: the sequence of its items.
Field(key, value) == <<[key |-> key, value |-> value]>>
WrappedValues ==
  { Field("stringValue", PyStr("value1")),
    Field("stringValue", PyStr("value2")),
    Field("longValue", PyInt("1")),
    Field("booleanValue", PyBool("True")),
    Field("isNull", PyBool("True")) }

\* ------------------------------------------------------------- sequences
SeqsUpTo(S, n) == UNION { [1..k -> S] : k \in 0..n }
NonEmptySeqsUpTo(S, n) == UNION { [1..k -> S] : k \in 1..n }
Range(s) == { s[i] : i \in DOMAIN s }
Min(a, b) == IF a < b THEN a ELSE b

\* A get_statement_result payload: n column names and rows of n wrapped values.
QueryResults(cols, rows) ==
  [ColumnMetadata |-> [i \in DOMAIN cols |-> [name |-> cols[i]]], Records |-> rows]
ColumnLists == SeqsUpTo(ColumnNames, Cardinality(ColumnNames))
Rows(n) == [1..n -> WrappedValues]

\* The payloads a scripted statement can hold.
StatementResults ==
  { QueryResults(<<"col1", "col2">>,
                 << <<Field("stringValue", PyStr("value1")), Field("stringValue", PyStr("value2"))>> >>),
    QueryResults(<<"col1", "col2">>, <<>>),
    QueryResults(<<"col1", "col1">>,
                 << <<Field("longValue", PyInt("1")), Field("isNull", PyBool("True"))>> >>),
    QueryResults(<<"col1", "col1", "col2">>,
                 << <<Field("longValue", PyInt("1")), Field("longValue", PyInt("1")),
                      Field("booleanValue", PyBool("True"))>> >>),
    QueryResults(<<>>, <<>>) }

\* ------------------------------------------------------------ dict, frame
\* A Python dict of lists: its keys in insertion order and the list of each.
EmptyDict == [keys |-> <<>>, vals |-> <<>>]

RECURSIVE Dedup(_)
Dedup(s) ==
  IF s = <<>> THEN <<>>
  ELSE LET front == Dedup(SubSeq(s, 1, Len(s) - 1))
           last == s[Len(s)]
       IN IF last \in Range(front) THEN front ELSE Append(front, last)

\* data = defaultdict(list): no key until a value is appended.
DictWithoutKeys(columns) == [keys |-> <<>>, vals |-> <<>>]

\* {col: [] for col in columns}
DictOfEmptyLists(columns) ==
  [keys |-> Dedup(columns), vals |-> [c \in Range(columns) |-> <<>>]]

\* list(w.values())[0]
FirstValue(w) == w[1].value

\* A DataFrame: its columns in order and the values of each column.
EmptyDataFrame == [columns |-> <<>>, data |-> <<>>]
NoDataFrame == [columns |-> <<"<none>">>, data |-> <<>>]

\* pd.DataFrame(data)
RaggedDict(data) ==
  \E a, b \in Range(data.keys) : Len(data.vals[a]) # Len(data.vals[b])
DataFrame(data) == [columns |-> data.keys, data |-> data.vals]

\* --------------------------------------------------------------- decoder
_get_columns_from_query_results(query_results) ==
  [i \in DOMAIN query_results.ColumnMetadata |-> query_results.ColumnMetadata[i].name]

\* for i, col in enumerate(columns): data[col].append(list(row[i].values())[0])
RECURSIVE AppendRow(_, _, _, _)
AppendRow(data, columns, row, i) ==
  IF i > Len(columns) THEN data
  ELSE AppendRow([data EXCEPT !.vals[columns[i]] = Append(@, FirstValue(row[i]))],
                 columns, row, i + 1)

\* for row in query_results["Records"]: ...
RECURSIVE AppendRecords(_, _, _, _)
AppendRecords(data, columns, records, k) ==
  IF k > Len(records) THEN data
  ELSE AppendRecords(AppendRow(data, columns, records[k], 1), columns, records, k + 1)

_format_query_results_as_json(query_results) ==
  LET columns == _get_columns_from_query_results(query_results)
  IN AppendRecords(DictOfEmptyLists(columns), columns, query_results.Records, 1)

\* ----------------------------------------------------------------- state
VARIABLES
  pc,              \* where query() stands
  statuses,        \* warehouse: the Status of the describe_statement responses, in order
  pos,             \* warehouse: how many of them have been handed out
  errorText,       \* warehouse: the Error of the statement
  hasResultSet,    \* warehouse: the HasResultSet flag of the statement
  statementResult, \* warehouse: what get_statement_result returns for the statement
  query_id,        \* the handle held by the running query()
  status,          \* the response held by the poll loop
  calls,           \* every warehouse call made so far, in order
  query_results,   \* the payload handed to the decoder: <<>> is None, <<r>> is r
  json_results,    \* the dict built by _format_query_results_as_json
  result,          \* the DataFrame query() returned
  error,           \* the message of the exception query() raised
  fault,           \* the exception a warehouse call raised, "<none>" while none has
  redecoded,       \* the DataFrames of further decodings of the same payload
  self,            \* the attributes of the BotoConnection instance
  catalog,         \* warehouse: for each SQL text, the responses its statement gives
  submitted,       \* warehouse: the SQL text of each handle issued, in order of issue
  w_pos,           \* warehouse: per handle, how many describe responses were handed out
  c_pc,            \* per query() call, where it stands
  c_query_id,      \* per query() call, its local query_id
  c_result,        \* per query() call, the DataFrame it returned
  c_error,         \* per query() call, the message of the exception it raised
  requests,        \* every request sent to the warehouse by the calls
  sequential,      \* no call has started while another was running
  p_module,        \* the package the PsycopgConnection class is taken from
  p_state,         \* whether the PsycopgConnection was constructed
  connection,      \* self.connection: None or the connection held
  opened,          \* how many connections psycopg2.connect has handed out
  closed,          \* the connections that were closed
  p_log,           \* every call made to the credential store and the driver
  p_ncalls,        \* how many query() and close() calls were started
  budget,          \* per caller, how many calls it still makes
  t_pc,            \* per caller, where its query() stands
  t_call,          \* per caller, the number of its current call
  t_cursor,        \* per caller, the connection its cursor belongs to
  p_result,        \* per caller, the DataFrame its last query() returned
  p_error,         \* per caller, the exception its last call raised
  s3_op,           \* the S3 method called and its arguments
  s3_objects,      \* the bucket: the body stored under each key
  s3_calls,        \* the calls the method made to the boto3 client
  s3_result,       \* what the method returned or raised
  pf_template,     \* PathFactory.generate: template_path
  pf_parameters,   \* PathFactory.generate: parameters
  pf_result        \* what generate returned or raised

vars == <<pc, statuses, pos, errorText, hasResultSet, statementResult, query_id,
          status, calls, query_results, json_results, result, error, fault, redecoded,
          self, catalog, submitted, w_pos, c_pc, c_query_id, c_result, c_error, requests,
          sequential, p_module, p_state, connection, opened, closed, p_log, p_ncalls, budget,
          t_pc, t_call, t_cursor, p_result, p_error, s3_op, s3_objects, s3_calls, s3_result,
          pf_template, pf_parameters, pf_result>>

\* The state of the query() calls that share one instance.
concVars == <<self, catalog, submitted, w_pos, c_pc, c_query_id, c_result, c_error,
              requests, sequential>>
\* The state outside the single query() call.
\* The state of the PsycopgConnection and its callers.
psyVars == <<p_module, p_state, connection, opened, closed, p_log, p_ncalls, budget,
             t_pc, t_call, t_cursor, p_result, p_error>>
\* The state of the S3 client, its bucket and the PathFactory.
storeVars == <<s3_op, s3_objects, s3_calls, s3_result, pf_template, pf_parameters, pf_result>>
rest == <<concVars, psyVars, storeVars>>
\* The state of the single query() call.
single == <<pc, statuses, pos, errorText, hasResultSet, statementResult, query_id, status,
            calls, query_results, json_results, result, error, fault, redecoded>>
\* The state of everything but the PsycopgConnection.
boto == <<single, concVars, storeVars>>
\* What the steps of a query() that meets no fault leave alone.
others == <<fault, redecoded, rest>>

warehouse == <<statuses, errorText, hasResultSet, statementResult>>

NoStatus == [Status |-> "<none>", Error |-> "<none>", HasResultSet |-> FALSE]
NoError == <<>>

\* The response of the next describe_statement call: the responses are handed
\* out in order and the last one is repeated from then on.
DescribeStatement ==
  [Status |-> statuses[Min(pos + 1, Len(statuses))],
   Error |-> errorText,
   HasResultSet |-> hasResultSet]

Call(api, caller, id, st) == [api |-> api, caller |-> caller, Id |-> id, Status |-> st]

\* The call log keeps the first MaxCalls - 1 calls and the latest one.
Logged(c) == IF Len(calls) < MaxCalls THEN Append(calls, c) ELSE [calls EXCEPT ![MaxCalls] = c]

Describe(caller) ==
  /\ pos' = Min(pos + 1, Len(statuses))
  /\ calls' = Logged(Call("describe_statement", caller, query_id, DescribeStatement.Status))

\* ------------------------------------------ query() calls on one instance
MaxConcLen == 2   \* longest scripted sequence of responses per statement here

QueryCalls == {1, 2}
ConcStatuses == {"RUNNING", "FINISHED", "FAILED"}

\* __init__: the attributes of a BotoConnection.
ClientFields ==
  [workgroup |-> "test-workgroup", database |-> "test-db", region |-> "us-east-1",
   client |-> "redshift-data"]

\* Call k sends its own SQL text; the warehouse answers per text.
ErrorOf(k) == IF k = 1 THEN "boom" ELSE "Query execution failed"
ResultOf(k) ==
  IF k = 1
  THEN QueryResults(<<"col1", "col2">>,
                    << <<Field("stringValue", PyStr("value1")), Field("stringValue", PyStr("value2"))>> >>)
  ELSE QueryResults(<<"col1">>, << <<Field("longValue", PyInt("1"))>> >>)

NoHandle == 0
OtherCall(k) == 3 - k
ConcTerminated(k) == c_pc[k] \in {"returned", "raised"}
ConcRunning(k) == c_pc[k] \notin {"query", "returned", "raised"}

ConcIdle ==
  /\ self = ClientFields
  /\ catalog = [k \in QueryCalls |-> [statuses |-> <<"FINISHED">>, HasResultSet |-> FALSE]]
  /\ submitted = <<>>
  /\ w_pos = [h \in QueryCalls |-> 0]
  /\ c_pc = [k \in QueryCalls |-> "returned"]
  /\ c_query_id = [k \in QueryCalls |-> NoHandle]
  /\ c_result = [k \in QueryCalls |-> NoDataFrame]
  /\ c_error = [k \in QueryCalls |-> NoError]
  /\ requests = {}
  /\ sequential = TRUE

\* ------------------------------------------ PsycopgConnection
MaxOps == 4   \* query() and close() calls made on one client, one after another

\* The two packages of the repository that define PsycopgConnection.
Modules == {"rsq_aws", "src.rsq_aws"}
Threads == {1, 2}
None == 0
NoFault == "<none>"
CredentialErrors == {"CredentialsError"}
ConnectErrors == {"OperationalError"}
QueryErrors == {"Test DB Error"}

\* One call to the credential store or the driver, or the start or end of a method.
Event(call, op, conn, err) == [call |-> call, op |-> op, conn |-> conn, err |-> err]

NoOp == [name |-> "<none>"]
NoResult == [status |-> "<none>", value |-> <<>>]

StoreIdle ==
  /\ s3_op = NoOp
  /\ s3_objects = <<>>
  /\ s3_calls = <<>>
  /\ s3_result = NoResult
  /\ pf_template = <<>>
  /\ pf_parameters = <<>>
  /\ pf_result = NoResult

PsyIdle ==
  /\ p_module = "rsq_aws"
  /\ p_state = "ready"
  /\ connection = None
  /\ opened = 0
  /\ closed = {}
  /\ p_log = <<>>
  /\ p_ncalls = 0
  /\ budget = [t \in Threads |-> 0]
  /\ t_pc = [t \in Threads |-> "idle"]
  /\ t_call = [t \in Threads |-> 0]
  /\ t_cursor = [t \in Threads |-> None]
  /\ p_result = [t \in Threads |-> NoDataFrame]
  /\ p_error = [t \in Threads |-> NoError]

Init ==
  /\ pc = "query"
  /\ statuses \in NonEmptySeqsUpTo(Statuses, MaxLen)
  /\ pos = 0
  /\ errorText \in Errors
  /\ hasResultSet \in BOOLEAN
  /\ statementResult \in StatementResults
  /\ query_id = "<none>"
  /\ status = NoStatus
  /\ calls = <<>>
  /\ query_results = <<>>
  /\ json_results = EmptyDict
  /\ result = NoDataFrame
  /\ error = NoError
  /\ fault = "<none>"
  /\ redecoded = <<>>
  /\ ConcIdle
  /\ PsyIdle
  /\ StoreIdle

\* query: response = self._execute_query(sql); query_id = self._get_query_id(response)
ExecuteQuery ==
  /\ pc = "query"
  /\ query_id' = "query-id"
  /\ calls' = Logged(Call("execute_statement", "_execute_query", "<none>", "<none>"))
  /\ pc' = "_wait_for_query_to_run"
  /\ UNCHANGED <<others, warehouse, pos, status, query_results, json_results, result, error>>

\* _wait_for_query_to_run: status = self.client.describe_statement(Id=query_id)
WaitDescribe ==
  /\ pc = "_wait_for_query_to_run"
  /\ status' = DescribeStatement
  /\ Describe("_wait_for_query_to_run")
  /\ pc' = "_wait_for_query_to_run:if"
  /\ UNCHANGED <<others, warehouse, query_id, query_results, json_results, result, error>>

\* The loop left on FINISHED alone.
LoopEndingStatusesWithoutFailed == {"FINISHED"}

\* The loop also left on RUNNING.
LoopEndingStatusesWithRunning == {"FINISHED", "FAILED", "RUNNING"}

LoopEndingStatuses == {"FINISHED", "FAILED"}

\* _wait_for_query_to_run: if status['Status'] in ['FINISHED', 'FAILED']: break
WaitTest ==
  /\ pc = "_wait_for_query_to_run:if"
  /\ pc' = IF status.Status \in LoopEndingStatuses
           THEN "_check_query_status"
           ELSE "_wait_for_query_to_run"
  /\ UNCHANGED <<others, warehouse, pos, query_id, status, calls, query_results, json_results,
                 result, error>>

QueryFailed(st) == <<"Query failed: ", st.Error>>

\* _check_query_status that compares with a status the warehouse never reports.
CheckQueryStatusNeverRaises ==
  /\ pc = "_check_query_status"
  /\ Describe("_check_query_status")
  /\ pc' = "_get_results"
  /\ UNCHANGED <<others, warehouse, query_id, status, query_results, json_results, result, error>>

\* _check_query_status
CheckQueryStatus ==
  /\ pc = "_check_query_status"
  /\ Describe("_check_query_status")
  /\ IF DescribeStatement.Status = "FAILED"
     THEN /\ pc' = "raised"
          /\ error' = QueryFailed(DescribeStatement)
     ELSE /\ pc' = "_get_results"
          /\ UNCHANGED error
  /\ UNCHANGED <<others, warehouse, query_id, status, query_results, json_results, result>>

\* _get_results that fetches whatever the flag says.
GetResultsAlwaysFetches ==
  /\ pc = "_get_results"
  /\ Describe("_has_result_set")
  /\ pc' = "get_statement_result"
  /\ UNCHANGED <<others, warehouse, query_id, status, query_results, json_results, result, error>>

\* _get_results: if self._has_result_set(query_id) ... return pd.DataFrame()
GetResults ==
  /\ pc = "_get_results"
  /\ Describe("_has_result_set")
  /\ IF DescribeStatement.HasResultSet
     THEN /\ pc' = "get_statement_result"
          /\ UNCHANGED result
     ELSE /\ pc' = "returned"
          /\ result' = EmptyDataFrame
  /\ UNCHANGED <<others, warehouse, query_id, status, query_results, json_results, error>>

\* _get_results: results = self.client.get_statement_result(Id=query_id)
GetStatementResult ==
  /\ pc = "get_statement_result"
  /\ calls' = Logged(Call("get_statement_result", "_get_results", query_id, "<none>"))
  /\ query_results' = <<statementResult>>
  /\ pc' = "_format_query_results_as_df"
  /\ UNCHANGED <<others, warehouse, pos, query_id, status, json_results, result, error>>

\* _format_query_results_as_df that consumes the records it reads.
FormatQueryResultsAsDfConsuming ==
  /\ pc = "_format_query_results_as_df"
  /\ query_results # <<>>
  /\ json_results' = _format_query_results_as_json(query_results[1])
  /\ result' = DataFrame(json_results')
  /\ query_results' = <<[query_results[1] EXCEPT !.Records = <<>>]>>
  /\ pc' = "returned"
  /\ UNCHANGED <<others, warehouse, pos, query_id, status, calls, error>>

\* _format_query_results_as_df
FormatQueryResultsAsDf ==
  /\ pc = "_format_query_results_as_df"
  /\ IF query_results = <<>>
     THEN /\ result' = EmptyDataFrame
          /\ pc' = "returned"
          /\ UNCHANGED <<json_results, error>>
     ELSE LET data == _format_query_results_as_json(query_results[1])
          IN /\ json_results' = data
             /\ IF RaggedDict(data)
                THEN /\ pc' = "raised"
                     /\ error' = <<"All arrays must be of the same length">>
                     /\ UNCHANGED result
                ELSE /\ pc' = "returned"
                     /\ result' = DataFrame(data)
                     /\ UNCHANGED error
  /\ UNCHANGED <<others, warehouse, pos, query_id, status, calls, query_results>>

TransportErrors == {"EndpointConnectionError", "ClientError"}
CallSites ==
  {"query", "_wait_for_query_to_run", "_check_query_status", "_get_results",
   "get_statement_result"}
CallAt(site) ==
  IF site = "query" THEN Call("execute_statement", "_execute_query", "<none>", "<raised>")
  ELSE IF site = "_get_results"
       THEN Call("describe_statement", "_has_result_set", query_id, "<raised>")
  ELSE IF site = "get_statement_result"
       THEN Call("get_statement_result", "_get_results", query_id, "<raised>")
  ELSE Call("describe_statement", site, query_id, "<raised>")

\* No handler stands between self.client and the caller of query().
Propagated(e) == <<e>>

\* A failed execute_statement is sent again.
TransportFailureResubmits ==
  /\ pc \in CallSites
  /\ \E e \in TransportErrors : fault' = e
  /\ calls' = Logged(CallAt(pc))
  /\ IF pc = "query"
     THEN UNCHANGED <<pc, error>>
     ELSE pc' = "raised" /\ error' = Propagated(fault')
  /\ UNCHANGED <<warehouse, pos, query_id, status, query_results, json_results, result,
                 redecoded, rest>>

\* A failed poll of the loop is swallowed and the loop goes on.
TransportFailureKeepsPolling ==
  /\ pc \in CallSites
  /\ \E e \in TransportErrors : fault' = e
  /\ calls' = Logged(CallAt(pc))
  /\ IF pc = "_wait_for_query_to_run"
     THEN UNCHANGED <<pc, error>>
     ELSE pc' = "raised" /\ error' = Propagated(fault')
  /\ UNCHANGED <<warehouse, pos, query_id, status, query_results, json_results, result,
                 redecoded, rest>>

\* The call query() stands at raises: the exception leaves query().
TransportFailure ==
  /\ pc \in CallSites
  /\ \E e \in TransportErrors : fault' = e
  /\ calls' = Logged(CallAt(pc))
  /\ pc' = "raised"
  /\ error' = Propagated(fault')
  /\ UNCHANGED <<warehouse, pos, query_id, status, query_results, json_results, result,
                 redecoded, rest>>

Next ==
  \/ ExecuteQuery
  \/ WaitDescribe
  \/ WaitTest
  \/ CheckQueryStatus
  \/ GetResults
  \/ GetStatementResult
  \/ FormatQueryResultsAsDf

Spec == Init /\ [][Next]_vars

\* Every warehouse call returns and query() keeps running.
FairSpec == Init /\ [][Next]_vars /\ WF_vars(Next)

\* query() against a warehouse whose calls may raise.
TransportNext == Next \/ TransportFailure
TransportSpec == Init /\ [][TransportNext]_vars

\* ------------------------------------------ two query() calls, step by step
\* The handle call k sends with its requests: its local query_id.
HandleOfLatest(k) == Len(submitted)
HandleOf(k) == c_query_id[k]

Request(k, api, caller, id) == [call |-> k, api |-> api, caller |-> caller, Id |-> id]

\* The response of describe_statement(Id=h).
ConcDescribeStatement(h) ==
  LET k == submitted[h]
      st == catalog[k].statuses
  IN [Status |-> st[Min(w_pos[h] + 1, Len(st))],
      Error |-> ErrorOf(k),
      HasResultSet |-> catalog[k].HasResultSet]
ConcDescribe(k, caller) ==
  LET h == HandleOf(k)
  IN /\ w_pos' = [w_pos EXCEPT ![h] = Min(@ + 1, Len(catalog[submitted[h]].statuses))]
     /\ requests' = requests \cup {Request(k, "describe_statement", caller, h)}

\* query that keeps the handle on the instance.
ConcExecuteQueryKeepsHandle(k) ==
  /\ c_pc[k] = "query"
  /\ submitted' = Append(submitted, k)
  /\ c_query_id' = [c_query_id EXCEPT ![k] = Len(submitted) + 1]
  /\ self' = self @@ ("query_id" :> "kept")
  /\ requests' = requests \cup {Request(k, "execute_statement", "_execute_query", NoHandle)}
  /\ sequential' = (sequential /\ ~ConcRunning(OtherCall(k)))
  /\ c_pc' = [c_pc EXCEPT ![k] = "_wait_for_query_to_run"]
  /\ UNCHANGED <<catalog, w_pos, c_result, c_error>>
  /\ UNCHANGED <<single, psyVars, storeVars>>

\* query: response = self._execute_query(sql); query_id = self._get_query_id(response)
ConcExecuteQuery(k) ==
  /\ c_pc[k] = "query"
  /\ submitted' = Append(submitted, k)
  /\ c_query_id' = [c_query_id EXCEPT ![k] = Len(submitted) + 1]
  /\ requests' = requests \cup {Request(k, "execute_statement", "_execute_query", NoHandle)}
  /\ sequential' = (sequential /\ ~ConcRunning(OtherCall(k)))
  /\ c_pc' = [c_pc EXCEPT ![k] = "_wait_for_query_to_run"]
  /\ UNCHANGED <<self, catalog, w_pos, c_result, c_error>>
  /\ UNCHANGED <<single, psyVars, storeVars>>

\* _wait_for_query_to_run: one turn of the loop
ConcWait(k) ==
  /\ c_pc[k] = "_wait_for_query_to_run"
  /\ ConcDescribe(k, "_wait_for_query_to_run")
  /\ c_pc' = [c_pc EXCEPT ![k] =
                IF ConcDescribeStatement(HandleOf(k)).Status \in LoopEndingStatuses
                THEN "_check_query_status"
                ELSE "_wait_for_query_to_run"]
  /\ UNCHANGED <<self, catalog, submitted, c_query_id, c_result, c_error, sequential>>
  /\ UNCHANGED <<single, psyVars, storeVars>>

\* _check_query_status
ConcCheck(k) ==
  /\ c_pc[k] = "_check_query_status"
  /\ ConcDescribe(k, "_check_query_status")
  /\ IF ConcDescribeStatement(HandleOf(k)).Status = "FAILED"
     THEN /\ c_pc' = [c_pc EXCEPT ![k] = "raised"]
          /\ c_error' = [c_error EXCEPT ![k] = QueryFailed(ConcDescribeStatement(HandleOf(k)))]
     ELSE /\ c_pc' = [c_pc EXCEPT ![k] = "_get_results"]
          /\ UNCHANGED c_error
  /\ UNCHANGED <<self, catalog, submitted, c_query_id, c_result, sequential>>
  /\ UNCHANGED <<single, psyVars, storeVars>>

\* _get_results: if self._has_result_set(query_id) ... return pd.DataFrame()
ConcGetResults(k) ==
  /\ c_pc[k] = "_get_results"
  /\ ConcDescribe(k, "_has_result_set")
  /\ IF ConcDescribeStatement(HandleOf(k)).HasResultSet
     THEN /\ c_pc' = [c_pc EXCEPT ![k] = "get_statement_result"]
          /\ UNCHANGED c_result
     ELSE /\ c_pc' = [c_pc EXCEPT ![k] = "returned"]
          /\ c_result' = [c_result EXCEPT ![k] = EmptyDataFrame]
  /\ UNCHANGED <<self, catalog, submitted, c_query_id, c_error, sequential>>
  /\ UNCHANGED <<single, psyVars, storeVars>>

\* _get_results: get_statement_result(Id=query_id), _format_query_results_as_df
ConcFetch(k) ==
  /\ c_pc[k] = "get_statement_result"
  /\ requests' = requests \cup {Request(k, "get_statement_result", "_get_results", HandleOf(k))}
  /\ LET data == _format_query_results_as_json(ResultOf(submitted[HandleOf(k)]))
     IN IF RaggedDict(data)
        THEN /\ c_pc' = [c_pc EXCEPT ![k] = "raised"]
             /\ c_error' = [c_error EXCEPT ![k] = <<"All arrays must be of the same length">>]
             /\ UNCHANGED c_result
        ELSE /\ c_pc' = [c_pc EXCEPT ![k] = "returned"]
             /\ c_result' = [c_result EXCEPT ![k] = DataFrame(data)]
             /\ UNCHANGED c_error
  /\ UNCHANGED <<self, catalog, submitted, w_pos, c_query_id, sequential>>
  /\ UNCHANGED <<single, psyVars, storeVars>>

ConcInit ==
  /\ pc = "returned"
  /\ statuses = <<"FINISHED">>
  /\ pos = 0
  /\ errorText = "boom"
  /\ hasResultSet = FALSE
  /\ statementResult = QueryResults(<<>>, <<>>)
  /\ query_id = "<none>"
  /\ status = NoStatus
  /\ calls = <<>>
  /\ query_results = <<>>
  /\ json_results = EmptyDict
  /\ result = NoDataFrame
  /\ error = NoError
  /\ fault = "<none>"
  /\ redecoded = <<>>
  /\ self = ClientFields
  /\ catalog \in [QueryCalls -> [statuses : NonEmptySeqsUpTo(ConcStatuses, MaxConcLen),
                                 HasResultSet : BOOLEAN]]
  /\ submitted = <<>>
  /\ w_pos = [h \in QueryCalls |-> 0]
  /\ c_pc = [k \in QueryCalls |-> "query"]
  /\ c_query_id = [k \in QueryCalls |-> NoHandle]
  /\ c_result = [k \in QueryCalls |-> NoDataFrame]
  /\ c_error = [k \in QueryCalls |-> NoError]
  /\ requests = {}
  /\ sequential = TRUE
  /\ PsyIdle
  /\ StoreIdle

ConcNext ==
  \E k \in QueryCalls :
    \/ ConcExecuteQuery(k)
    \/ ConcWait(k)
    \/ ConcCheck(k)
    \/ ConcGetResults(k)
    \/ ConcFetch(k)

\* Two query() calls on one BotoConnection, interleaved at the warehouse calls.
ConcSpec == ConcInit /\ [][ConcNext]_vars

\* The decoder alone, applied to every payload within the bounds.
DecodeInit ==
  /\ pc = "_format_query_results_as_df"
  /\ statuses = <<"FINISHED">>
  /\ pos = 0
  /\ errorText = "boom"
  /\ hasResultSet = TRUE
  /\ statementResult = QueryResults(<<>>, <<>>)
  /\ query_id = "query-id"
  /\ status = NoStatus
  /\ calls = <<>>
  /\ \/ query_results = <<>>
     \/ \E cols \in ColumnLists : \E m \in 0..MaxRows : \E rows \in [1..m -> Rows(Len(cols))] :
          query_results = <<QueryResults(cols, rows)>>
  /\ json_results = EmptyDict
  /\ result = NoDataFrame
  /\ error = NoError
  /\ fault = "<none>"
  /\ redecoded = <<>>
  /\ ConcIdle
  /\ PsyIdle
  /\ StoreIdle

\* _format_query_results_as_df called once more on the payload it was given.
DecodeAgain ==
  /\ pc = "returned"
  /\ Len(redecoded) < MaxDecodings - 1
  /\ query_results # <<>>
  /\ redecoded' = Append(redecoded, DataFrame(_format_query_results_as_json(query_results[1])))
  /\ UNCHANGED <<pc, warehouse, pos, query_id, status, calls, query_results, json_results,
                 result, error, fault, rest>>

DecodeNext == FormatQueryResultsAsDf \/ DecodeAgain

DecodeSpec == DecodeInit /\ [][DecodeNext]_vars

TypeOK ==
  /\ pc \in {"query", "_wait_for_query_to_run", "_wait_for_query_to_run:if",
             "_check_query_status", "_get_results", "get_statement_result",
             "_format_query_results_as_df", "returned", "raised"}
  /\ pos \in 0..Len(statuses)
  /\ Len(calls) <= MaxCalls

\* ------------------------------------------------------- reading the log
IsSubmit(c) == c.api = "execute_statement"
IsLoopPoll(c) == c.api = "describe_statement" /\ c.caller = "_wait_for_query_to_run"
IsCheckPoll(c) == c.api = "describe_statement" /\ c.caller = "_check_query_status"
IsStatusPoll(c) == IsLoopPoll(c) \/ IsCheckPoll(c)
IsHasResultSetCall(c) == c.api = "describe_statement" /\ c.caller = "_has_result_set"
IsFetch(c) == c.api = "get_statement_result"

NumSubmits == Len(SelectSeq(calls, IsSubmit))
NumStatusPolls == Len(SelectSeq(calls, IsStatusPoll))
NumHasResultSetCalls == Len(SelectSeq(calls, IsHasResultSetCall))
NumFetches == Len(SelectSeq(calls, IsFetch))

Terminated == pc \in {"returned", "raised"}

\* Once the warehouse reports a terminal status it reports that status for good.
TerminalStable ==
  \A i, j \in DOMAIN statuses :
    (i < j /\ statuses[i] \in TerminalStatuses) => statuses[j] = statuses[i]
\* Finitely many pending statuses, then a terminal status that stays.
PendingThenTerminal == TerminalStable /\ statuses[Len(statuses)] \in TerminalStatuses
TerminalStatus == statuses[Len(statuses)]
NumPendingResponses == Cardinality({ i \in DOMAIN statuses : statuses[i] \in PendingStatuses })
AllReceivedPending == \A i \in 1..pos : statuses[i] \in PendingStatuses

\* The first logged status poll whose response ends the poll loop (0: none yet).
EndsLoop(c) == IsStatusPoll(c) /\ c.Status \in {"FINISHED", "FAILED"}
FirstLoopEnd ==
  IF \E i \in DOMAIN calls : EndsLoop(calls[i])
  THEN CHOOSE i \in DOMAIN calls :
         EndsLoop(calls[i]) /\ \A j \in 1..(i - 1) : ~EndsLoop(calls[j])
  ELSE 0
StatusPollsBefore(i) == Len(SelectSeq(SubSeq(calls, 1, i - 1), IsStatusPoll))

\* ------------------------------------------------------------------ claims

\* C1: for finitely many pending statuses followed by a terminal status
\* (FINISHED, FAILED or ABORTED) that stays, query() eventually returns or raises.
C1_PollingTerminates == PendingThenTerminal => <>Terminated

\* C2: when the terminal status is FAILED or ABORTED, query() raises an error
\* whose message contains the warehouse's Error text, and returns no result.
C2_FailedOrAbortedRaises ==
  (PendingThenTerminal /\ TerminalStatus \in {"FAILED", "ABORTED"})
    => /\ <>(pc = "raised" /\ errorText \in Range(error))
       /\ [](result = NoDataFrame)

C4_PendingKeepsPolling ==
  AllReceivedPending
    => /\ pc \in {"query", "_wait_for_query_to_run", "_wait_for_query_to_run:if"}
       /\ result = NoDataFrame
       /\ error = NoError
       /\ \A i \in DOMAIN calls : IsSubmit(calls[i]) \/ IsLoopPoll(calls[i])
C4_Witness ==
  /\ pc = "_wait_for_query_to_run"
  /\ pos >= 2
  /\ AllReceivedPending

\* C5: when the statement has no result set, get_statement_result is never
\* called and query() returns the DataFrame with no columns and no rows,
\* whatever the fetch would have returned.
C5_NoResultSetNoFetch ==
  ~hasResultSet
    => /\ NumFetches = 0
       /\ query_results = <<>>
       /\ pc = "returned" => result = EmptyDataFrame
C5_Witness ==
  /\ pc = "returned"
  /\ ~hasResultSet
  /\ statementResult.Records # <<>>

\* C6: the calls of one query() are ordered submit, status polls,
\* has-result-set, fetch; the fetch is made at most once, only after a FINISHED
\* status and a true has-result-set flag were observed, and never when the
\* terminal status is FAILED or ABORTED.
CallRank(c) ==
  IF IsSubmit(c) THEN 1 ELSE IF IsStatusPoll(c) THEN 2 ELSE IF IsHasResultSetCall(c) THEN 3 ELSE 4
C6_CallOrder ==
  /\ \A i, j \in DOMAIN calls : i < j => CallRank(calls[i]) <= CallRank(calls[j])
  /\ NumSubmits <= 1
  /\ NumFetches <= 1
  /\ (TerminalStable /\ NumFetches > 0)
       => /\ \E i \in DOMAIN calls : IsStatusPoll(calls[i]) /\ calls[i].Status = "FINISHED"
          /\ NumHasResultSetCalls = 1
          /\ hasResultSet
  /\ (TerminalStable /\ \E i \in 1..pos : statuses[i] \in {"FAILED", "ABORTED"})
       => NumFetches = 0
C6_Witness ==
  /\ pc = "returned"
  /\ TerminalStable
  /\ NumFetches = 1
  /\ NumStatusPolls >= 3

\* ----------------------------------------------------- claims, the decoder
Payload == query_results[1]
Columns == _get_columns_from_query_results(Payload)
Decoded == pc = "returned" /\ query_results # <<>>

\* C7: the decoded result has the columns c_1..c_n in metadata order and column
\* c_i holds the values of position i of the rows, in row order.
C7_DecodePositional ==
  Decoded
    => /\ result.columns = Columns
       /\ \A i \in DOMAIN Columns :
            result.data[Columns[i]]
              = [k \in DOMAIN Payload.Records |-> FirstValue(Payload.Records[k][i])]

\* C8: every column of a decoded result has as many values as the fetch
\* returned rows, also when two columns carry the same name.
C8_ColumnsHaveRowCount ==
  Decoded
    => \A c \in Range(result.columns) : Len(result.data[c]) = Len(Payload.Records)

\* C9: zero rows with a non-empty column list decode to a result that keeps
\* every column name, each with an empty sequence, and that differs from the
\* result of a statement with no result set.
C9_EmptyRowsKeepColumns ==
  (Terminated /\ query_results # <<>> /\ Payload.Records = <<>> /\ Columns # <<>>)
    => /\ pc = "returned"
       /\ \A i \in DOMAIN Columns :
            /\ Columns[i] \in Range(result.columns)
            /\ result.data[Columns[i]] = <<>>
       /\ result # EmptyDataFrame
C9_Witness ==
  /\ Decoded
  /\ Payload.Records = <<>>
  /\ Columns = <<"col1", "col2">>
  /\ result.columns = <<"col1", "col2">>

\* C10: a string, number or boolean cell decodes to that scalar and a cell the
\* warehouse encodes as null (tag isNull) decodes to the null scalar.
Scalar(w) == IF w[1].key = "isNull" THEN PyNone ELSE w[1].value
C10_ScalarTypePreserved ==
  Decoded
    => \A k \in DOMAIN Payload.Records : \A i \in DOMAIN Columns :
         Scalar(Payload.Records[k][i]) \in Range(json_results.vals[Columns[i]])

\* -------------------------------------------------- claims, failing calls
Raised(c) == c.Status = "<raised>"

\* C11: every query() sends execute_statement exactly once, and when that call
\* fails its error reaches the caller unchanged and no other call is made.
C11_SubmitOnceFailFast ==
  /\ NumSubmits <= 1
  /\ calls # <<>> => IsSubmit(calls[1])
  /\ Terminated => NumSubmits = 1
  /\ (calls # <<>> /\ Raised(calls[1]))
       => /\ pc = "raised"
          /\ error = <<fault>>
          /\ Len(calls) = 1
          /\ pos = 0
C11_Witness ==
  /\ pc = "raised"
  /\ Len(calls) = 1
  /\ Raised(calls[1])
  /\ error = <<"ClientError">>

\* C12: an error raised by a status poll, the has-result-set call or the fetch
\* ends query() at once with that same error: the failed call is the last call.
C12_TransportErrorEndsQuery ==
  (fault # "<none>" /\ Len(calls) > 1)
    => /\ pc = "raised"
       /\ error = <<fault>>
       /\ result = NoDataFrame
       /\ Raised(calls[Len(calls)])
       /\ \A i \in 1..(Len(calls) - 1) : ~Raised(calls[i])
C12_Witness ==
  /\ pc = "raised"
  /\ fault # "<none>"
  /\ IsFetch(calls[Len(calls)])
  /\ Raised(calls[Len(calls)])
  /\ NumStatusPolls >= 3

FetchedRows == << <<"value1">> >>
Description == << <<"col1">> >>

\* _generate_df: columns = [desc[0] for desc in description]; pd.DataFrame(data, columns=columns)
_generate_df(data, description) ==
  [columns |-> [i \in 1..Len(description) |-> description[i][1]], rows |-> data]

\* _connect, when it fails: the handler of rsq_aws clears the handle, src.rsq_aws has none.
\* A failed connect that leaves the handle on a connection never opened.
HandleLeftDangling == opened + 1
HandleAfterFailedConnect == IF p_module = "rsq_aws" THEN None ELSE connection

\* The exception that leaves the method is the one the failing call raised.
Reraised(e) == <<e>>

\* The end of a call by an exception, the handle being left as held.
Raise(t, e, events, held) ==
  /\ t_pc' = [t_pc EXCEPT ![t] = "idle"]
  /\ p_error' = [p_error EXCEPT ![t] = Reraised(e)]
  /\ p_log' = p_log \o events \o <<Event(t_call[t], "raise", held, e)>>

\* __init__
Construct ==
  /\ p_state = "new"
  /\ IF p_module = "rsq_aws"
     THEN /\ p_state' = "ready"
          /\ p_log' = <<Event(0, "__init__", None, NoFault)>>
          /\ UNCHANGED <<connection, opened>>
     ELSE \E cred \in {NoFault} \cup CredentialErrors, conn \in {NoFault} \cup ConnectErrors :
            IF cred # NoFault
            THEN /\ p_state' = "__init__ raised"
                 /\ p_log' = <<Event(0, "__init__", None, NoFault),
                               Event(0, "get_credentials", None, cred),
                               Event(0, "raise", None, cred)>>
                 /\ UNCHANGED <<connection, opened>>
            ELSE IF conn # NoFault
                 THEN /\ p_state' = "__init__ raised"
                      /\ p_log' = <<Event(0, "__init__", None, NoFault),
                                    Event(0, "get_credentials", None, NoFault),
                                    Event(0, "connect", None, conn),
                                    Event(0, "raise", None, conn)>>
                      /\ UNCHANGED <<connection, opened>>
                 ELSE /\ p_state' = "ready"
                      /\ opened' = opened + 1
                      /\ connection' = opened + 1
                      /\ p_log' = <<Event(0, "__init__", None, NoFault),
                                    Event(0, "get_credentials", None, NoFault),
                                    Event(0, "connect", opened + 1, NoFault)>>
  /\ UNCHANGED <<p_module, closed, p_ncalls, budget, t_pc, t_call, t_cursor, p_result, p_error>>
  /\ UNCHANGED boto

\* query that connects whether or not a connection is held.
StartQueryAlwaysConnects(t) ==
  /\ p_state = "ready"
  /\ t_pc[t] = "idle"
  /\ budget[t] > 0
  /\ budget' = [budget EXCEPT ![t] = @ - 1]
  /\ p_ncalls' = p_ncalls + 1
  /\ t_call' = [t_call EXCEPT ![t] = p_ncalls + 1]
  /\ p_log' = Append(p_log, Event(p_ncalls + 1, "query", connection, NoFault))
  /\ t_pc' = [t_pc EXCEPT ![t] = "_get_credentials"]
  /\ p_result' = [p_result EXCEPT ![t] = NoDataFrame]
  /\ p_error' = [p_error EXCEPT ![t] = NoError]
  /\ UNCHANGED <<p_module, p_state, connection, opened, closed, t_cursor>>
  /\ UNCHANGED boto

\* query: if not self._is_connected(): self._connect()
StartQuery(t) ==
  /\ p_state = "ready"
  /\ t_pc[t] = "idle"
  /\ budget[t] > 0
  /\ budget' = [budget EXCEPT ![t] = @ - 1]
  /\ p_ncalls' = p_ncalls + 1
  /\ t_call' = [t_call EXCEPT ![t] = p_ncalls + 1]
  /\ p_log' = Append(p_log, Event(p_ncalls + 1, "query", connection, NoFault))
  /\ t_pc' = [t_pc EXCEPT ![t] = IF connection = None THEN "_get_credentials" ELSE "cursor"]
  /\ p_result' = [p_result EXCEPT ![t] = NoDataFrame]
  /\ p_error' = [p_error EXCEPT ![t] = NoError]
  /\ UNCHANGED <<p_module, p_state, connection, opened, closed, t_cursor>>
  /\ UNCHANGED boto

\* _connect: credentials = self._get_credentials()
GetCredentials(t) ==
  /\ t_pc[t] = "_get_credentials"
  /\ \E cred \in {NoFault} \cup CredentialErrors :
       IF cred = NoFault
       THEN /\ p_log' = Append(p_log, Event(t_call[t], "get_credentials", None, NoFault))
            /\ t_pc' = [t_pc EXCEPT ![t] = "connect"]
            /\ UNCHANGED <<connection, p_error>>
       ELSE /\ connection' = HandleAfterFailedConnect
            /\ Raise(t, cred, <<Event(t_call[t], "get_credentials", None, cred)>>,
                  HandleAfterFailedConnect)
  /\ UNCHANGED <<p_module, p_state, opened, closed, p_ncalls, budget, t_call, t_cursor, p_result>>
  /\ UNCHANGED boto

\* _connect that keeps the connection another caller has stored meanwhile.
ConnectUnlessHeld(t) ==
  /\ t_pc[t] = "connect"
  /\ IF connection # None
     THEN /\ t_pc' = [t_pc EXCEPT ![t] = "cursor"]
          /\ UNCHANGED <<connection, opened, p_log, p_error>>
     ELSE /\ opened' = opened + 1
          /\ connection' = opened + 1
          /\ p_log' = Append(p_log, Event(t_call[t], "connect", opened + 1, NoFault))
          /\ t_pc' = [t_pc EXCEPT ![t] = "cursor"]
          /\ UNCHANGED p_error
  /\ UNCHANGED <<p_module, p_state, closed, p_ncalls, budget, t_call, t_cursor, p_result>>
  /\ UNCHANGED boto

\* _connect: self.connection = psycopg2.connect(...)
Connect(t) ==
  /\ t_pc[t] = "connect"
  /\ \E conn \in {NoFault} \cup ConnectErrors :
       IF conn = NoFault
       THEN /\ opened' = opened + 1
            /\ connection' = opened + 1
            /\ p_log' = Append(p_log, Event(t_call[t], "connect", opened + 1, NoFault))
            /\ t_pc' = [t_pc EXCEPT ![t] = "cursor"]
            /\ UNCHANGED p_error
       ELSE /\ connection' = HandleAfterFailedConnect
            /\ Raise(t, conn, <<Event(t_call[t], "connect", None, conn)>>,
                  HandleAfterFailedConnect)
            /\ UNCHANGED opened
  /\ UNCHANGED <<p_module, p_state, closed, p_ncalls, budget, t_call, t_cursor, p_result>>
  /\ UNCHANGED boto

\* query: cursor = self.connection.cursor()
Cursor(t) ==
  /\ t_pc[t] = "cursor"
  /\ IF connection = None
     THEN /\ Raise(t, "AttributeError",
                <<Event(t_call[t], "cursor", None, "AttributeError")>>, None)
          /\ UNCHANGED <<connection, t_cursor>>
     ELSE /\ t_cursor' = [t_cursor EXCEPT ![t] = connection]
          /\ p_log' = Append(p_log, Event(t_call[t], "cursor", connection, NoFault))
          /\ t_pc' = [t_pc EXCEPT ![t] = "execute"]
          /\ UNCHANGED <<connection, p_error>>
  /\ UNCHANGED <<p_module, p_state, opened, closed, p_ncalls, budget, t_call, p_result>>
  /\ UNCHANGED boto

\* query whose failing execute drops the connection.
ExecuteDroppingHandle(t) ==
  /\ t_pc[t] = "execute"
  /\ \E e \in {NoFault} \cup QueryErrors :
       IF e = NoFault
       THEN /\ p_log' = Append(p_log, Event(t_call[t], "execute", t_cursor[t], NoFault))
            /\ t_pc' = [t_pc EXCEPT ![t] = "fetchall"]
            /\ UNCHANGED <<connection, p_error>>
       ELSE /\ connection' = None
            /\ Raise(t, e, <<Event(t_call[t], "execute", t_cursor[t], e)>>, None)
  /\ UNCHANGED <<p_module, p_state, opened, closed, p_ncalls, budget, t_call,
                 t_cursor, p_result>>
  /\ UNCHANGED boto

\* query: cursor.execute(sql)
Execute(t) ==
  /\ t_pc[t] = "execute"
  /\ \E e \in {NoFault} \cup QueryErrors :
       IF e = NoFault
       THEN /\ p_log' = Append(p_log, Event(t_call[t], "execute", t_cursor[t], NoFault))
            /\ t_pc' = [t_pc EXCEPT ![t] = "fetchall"]
            /\ UNCHANGED p_error
       ELSE Raise(t, e, <<Event(t_call[t], "execute", t_cursor[t], e)>>, connection)
  /\ UNCHANGED <<p_module, p_state, connection, opened, closed, p_ncalls, budget, t_call,
                 t_cursor, p_result>>
  /\ UNCHANGED boto

\* query: data = cursor.fetchall(); description = cursor.description;
\*        return self._generate_df(data, description)
Fetchall(t) ==
  /\ t_pc[t] = "fetchall"
  /\ \E e \in {NoFault} \cup QueryErrors :
       IF e = NoFault
       THEN /\ p_log' = p_log \o <<Event(t_call[t], "fetchall", t_cursor[t], NoFault),
                                   Event(t_call[t], "return", connection, NoFault)>>
            /\ p_result' = [p_result EXCEPT ![t] = _generate_df(FetchedRows, Description)]
            /\ t_pc' = [t_pc EXCEPT ![t] = "idle"]
            /\ UNCHANGED p_error
       ELSE /\ Raise(t, e, <<Event(t_call[t], "fetchall", t_cursor[t], e)>>, connection)
            /\ UNCHANGED p_result
  /\ UNCHANGED <<p_module, p_state, connection, opened, closed, p_ncalls, budget, t_call,
                 t_cursor>>
  /\ UNCHANGED boto

\* close that leaves the handle in place.
CloseKeepsHandle(t) ==
  /\ p_state = "ready"
  /\ t_pc[t] = "idle"
  /\ budget[t] > 0
  /\ budget' = [budget EXCEPT ![t] = @ - 1]
  /\ p_ncalls' = p_ncalls + 1
  /\ t_call' = [t_call EXCEPT ![t] = p_ncalls + 1]
  /\ IF connection # None
     THEN /\ closed' = closed \cup {connection}
          /\ p_log' = p_log \o <<Event(p_ncalls + 1, "close", connection, NoFault),
                                 Event(p_ncalls + 1, "connection.close", connection, NoFault),
                                 Event(p_ncalls + 1, "return", connection, NoFault)>>
     ELSE /\ p_log' = p_log \o <<Event(p_ncalls + 1, "close", None, NoFault),
                                 Event(p_ncalls + 1, "return", None, NoFault)>>
          /\ UNCHANGED closed
  /\ UNCHANGED <<p_module, p_state, connection, opened, t_pc, t_cursor, p_result, p_error>>
  /\ UNCHANGED boto

\* close that drops the handle without closing the connection.
CloseForgetsConnection(t) ==
  /\ p_state = "ready"
  /\ t_pc[t] = "idle"
  /\ budget[t] > 0
  /\ budget' = [budget EXCEPT ![t] = @ - 1]
  /\ p_ncalls' = p_ncalls + 1
  /\ t_call' = [t_call EXCEPT ![t] = p_ncalls + 1]
  /\ connection' = None
  /\ p_log' = p_log \o <<Event(p_ncalls + 1, "close", connection, NoFault),
                         Event(p_ncalls + 1, "return", None, NoFault)>>
  /\ UNCHANGED <<p_module, p_state, opened, closed, t_pc, t_cursor, p_result, p_error>>
  /\ UNCHANGED boto

\* close
Close(t) ==
  /\ p_state = "ready"
  /\ t_pc[t] = "idle"
  /\ budget[t] > 0
  /\ budget' = [budget EXCEPT ![t] = @ - 1]
  /\ p_ncalls' = p_ncalls + 1
  /\ t_call' = [t_call EXCEPT ![t] = p_ncalls + 1]
  /\ IF connection # None
     THEN /\ closed' = closed \cup {connection}
          /\ connection' = None
          /\ p_log' = p_log \o <<Event(p_ncalls + 1, "close", connection, NoFault),
                                 Event(p_ncalls + 1, "connection.close", connection, NoFault),
                                 Event(p_ncalls + 1, "return", None, NoFault)>>
     ELSE /\ p_log' = p_log \o <<Event(p_ncalls + 1, "close", None, NoFault),
                                 Event(p_ncalls + 1, "return", None, NoFault)>>
          /\ UNCHANGED <<connection, closed>>
  /\ UNCHANGED <<p_module, p_state, opened, t_pc, t_cursor, p_result, p_error>>
  /\ UNCHANGED boto

BotoIdle ==
  /\ pc = "returned"
  /\ statuses = <<"FINISHED">>
  /\ pos = 0
  /\ errorText = "boom"
  /\ hasResultSet = FALSE
  /\ statementResult = QueryResults(<<>>, <<>>)
  /\ query_id = "<none>"
  /\ status = NoStatus
  /\ calls = <<>>
  /\ query_results = <<>>
  /\ json_results = EmptyDict
  /\ result = NoDataFrame
  /\ error = NoError
  /\ fault = "<none>"
  /\ redecoded = <<>>
  /\ ConcIdle

\* One caller, about to construct the client of either package.
PsyInit ==
  /\ BotoIdle
  /\ StoreIdle
  /\ p_module \in Modules
  /\ p_state = "new"
  /\ connection = None
  /\ opened = 0
  /\ closed = {}
  /\ p_log = <<>>
  /\ p_ncalls = 0
  /\ budget = [t \in Threads |-> IF t = 1 THEN MaxOps ELSE 0]
  /\ t_pc = [t \in Threads |-> "idle"]
  /\ t_call = [t \in Threads |-> 0]
  /\ t_cursor = [t \in Threads |-> None]
  /\ p_result = [t \in Threads |-> NoDataFrame]
  /\ p_error = [t \in Threads |-> NoError]

QueryStep(t) ==
  \/ StartQuery(t)
  \/ GetCredentials(t)
  \/ Connect(t)
  \/ Cursor(t)
  \/ Execute(t)
  \/ Fetchall(t)

PsyNext ==
  \/ Construct
  \/ \E t \in Threads : QueryStep(t) \/ Close(t)

\* One caller constructs a PsycopgConnection and makes query() and close() calls on it.
PsySpec == PsyInit /\ [][PsyNext]_vars

\* Two callers, each about to make one query() on a constructed, disconnected client.
PsyConcInit ==
  /\ BotoIdle
  /\ StoreIdle
  /\ p_module \in Modules
  /\ p_state = "ready"
  /\ connection = None
  /\ IF p_module = "rsq_aws"
     THEN /\ opened = 0
          /\ closed = {}
          /\ p_log = <<Event(0, "__init__", None, NoFault)>>
          /\ p_ncalls = 0
     ELSE /\ opened = 1
          /\ closed = {1}
          /\ p_log = <<Event(0, "__init__", None, NoFault),
                       Event(0, "get_credentials", None, NoFault),
                       Event(0, "connect", 1, NoFault),
                       Event(1, "close", 1, NoFault),
                       Event(1, "connection.close", 1, NoFault),
                       Event(1, "return", None, NoFault)>>
          /\ p_ncalls = 1
  /\ budget = [t \in Threads |-> 1]
  /\ t_pc = [t \in Threads |-> "idle"]
  /\ t_call = [t \in Threads |-> 0]
  /\ t_cursor = [t \in Threads |-> None]
  /\ p_result = [t \in Threads |-> NoDataFrame]
  /\ p_error = [t \in Threads |-> NoError]

PsyConcNext == \E t \in Threads : QueryStep(t)

\* Two query() calls on one PsycopgConnection, interleaved at the driver calls.
PsyConcSpec == PsyConcInit /\ [][PsyConcNext]_vars

\* ------------------------------------------ reading the state of the two calls
\* What call k came to: where it stands, what it returned, what it raised.
ConcOutcome(k) == [pc |-> c_pc[k], result |-> c_result[k], error |-> c_error[k]]

\* What the warehouse responses for the statement of call k alone lead to.
OwnOutcome(k) ==
  LET st == catalog[k].statuses
      ends == {i \in 1..Len(st) : st[i] \in {"FINISHED", "FAILED"}}
      first == CHOOSE i \in ends : \A j \in ends : i <= j
      checked == st[Min(first + 1, Len(st))]
      data == _format_query_results_as_json(ResultOf(k))
  IN IF checked = "FAILED"
     THEN [pc |-> "raised", result |-> NoDataFrame, error |-> <<"Query failed: ", ErrorOf(k)>>]
     ELSE IF ~catalog[k].HasResultSet
          THEN [pc |-> "returned", result |-> EmptyDataFrame, error |-> NoError]
          ELSE [pc |-> "returned", result |-> DataFrame(data), error |-> NoError]

\* C14: a query() call, returned or raised, leaves the instance with its workgroup,
\* database, region and transport client as constructed and with no further attribute
\* (no query handle is kept), and a query() made after another has ended comes to what
\* the responses for its own statement determine.
C14_StatelessPerCall ==
  /\ self = ClientFields
  /\ DOMAIN self = {"workgroup", "database", "region", "client"}
  /\ sequential =>
       \A k \in QueryCalls : ConcTerminated(k) => ConcOutcome(k) = OwnOutcome(k)

\* A query() that raised was followed by one that returned rows.
C14_Witness ==
  /\ sequential
  /\ \A k \in QueryCalls : ConcTerminated(k)
  /\ \E k \in QueryCalls :
       /\ c_pc[k] = "raised"
       /\ c_query_id[k] = 1
       /\ c_pc[OtherCall(k)] = "returned"
       /\ c_result[OtherCall(k)] \notin {EmptyDataFrame, NoDataFrame}
  /\ self = ClientFields

\* C15: however two query() calls on one instance interleave, every describe and fetch
\* request of a call carries the handle its own submit returned, and a call that ended
\* came to what the responses for its own statement determine.
C15_OwnHandleOnly ==
  /\ \A r \in requests :
       r.api # "execute_statement" =>
         /\ r.Id = c_query_id[r.call]
         /\ r.Id \in 1..Len(submitted)
         /\ submitted[r.Id] = r.call
  /\ \A k \in QueryCalls : ConcTerminated(k) => ConcOutcome(k) = OwnOutcome(k)

\* Two calls ran interleaved, each polled, one raised and the other fetched rows.
C15_Witness ==
  /\ ~sequential
  /\ \A k \in QueryCalls : ConcTerminated(k)
  /\ \E k \in QueryCalls :
       /\ c_pc[k] = "raised"
       /\ c_query_id[k] = 2
       /\ c_pc[OtherCall(k)] = "returned"
       /\ \E r \in requests : r.call = OtherCall(k) /\ r.api = "get_statement_result" /\ r.Id = 1
  /\ \A k \in QueryCalls : Len(catalog[k].statuses) = MaxConcLen

\* ------------------------------------------ reading the driver log
\* The positions in the log of the events of call c with operation op.
EventsOf(c, op) == {i \in DOMAIN p_log : p_log[i].call = c /\ p_log[i].op = op}
Succeeded(i) == p_log[i].err = NoFault
\* The positions at which a query(), a close() starts.
QueryStarts == {i \in DOMAIN p_log : p_log[i].op = "query"}
CloseStarts == {i \in DOMAIN p_log : p_log[i].op = "close"}
\* The queries that started with no connection held.
StartedDisconnected == {i \in QueryStarts : p_log[i].conn = None}
\* The psycopg2.connect calls made by query() calls.
ConnectsInQueries == {i \in DOMAIN p_log : p_log[i].op = "connect" /\ p_log[i].call > 0}
AllIdle == \A t \in Threads : t_pc[t] = "idle"
NoneRaised == \A i \in DOMAIN p_log : p_log[i].op # "raise"
\* The connections opened, not closed and not held.
Leaked == {x \in 1..opened : x \notin closed /\ x # connection}

\* C16: constructing the client fetches no credentials and opens no connection: the
\* constructor makes no call to the credential store or the driver and does not raise,
\* and until the first query() the handle is None and no connection was opened.
C16_LazyConstruction ==
  /\ \A i \in DOMAIN p_log : p_log[i].call = 0 => p_log[i].op = "__init__"
  /\ p_state # "__init__ raised"
  /\ (p_state = "ready" /\ p_ncalls = 0) => (connection = None /\ opened = 0)

\* C17: a query() that starts with the handle None fetches credentials once and
\* connects once before it executes, and executes on that connection; a query() that
\* starts with a handle fetches no credentials, connects zero times and executes on the
\* held connection; so when no query() has raised, the connects made by query() calls
\* are as many as the query() calls that started disconnected.
C17_ConnectsWhenNeeded ==
  /\ \A i \in QueryStarts :
       LET c == p_log[i].call
           seen == p_log[i].conn
       IN /\ Cardinality(EventsOf(c, "connect")) <= 1
          /\ Cardinality(EventsOf(c, "get_credentials")) <= 1
          /\ seen # None =>
               /\ EventsOf(c, "connect") = {}
               /\ EventsOf(c, "get_credentials") = {}
               /\ \A j \in EventsOf(c, "execute") : p_log[j].conn = seen
          /\ seen = None =>
               \A j \in EventsOf(c, "execute") :
                 /\ \E g \in EventsOf(c, "get_credentials") : g < j /\ Succeeded(g)
                 /\ \E k \in EventsOf(c, "connect") :
                      /\ k < j
                      /\ Succeeded(k)
                      /\ p_log[k].conn = p_log[j].conn
                      /\ \E g \in EventsOf(c, "get_credentials") : g < k
  /\ (NoneRaised /\ AllIdle) =>
       Cardinality(ConnectsInQueries) = Cardinality(StartedDisconnected)

\* Three queries returned: the first connected, the second reused the connection, and
\* after a close() the third connected again.
C17_Witness ==
  /\ NoneRaised
  /\ AllIdle
  /\ Cardinality(QueryStarts) = 3
  /\ Cardinality(StartedDisconnected) = 2
  /\ Cardinality(ConnectsInQueries) = 2
  /\ \E i \in QueryStarts : p_log[i].conn # None /\ EventsOf(p_log[i].call, "execute") # {}

\* C18: a close() that finds a connection held closes that connection once and leaves
\* the handle None; a close() that finds none makes no driver call; no close() raises,
\* no connection is closed twice, and a query() that follows a close() starts
\* disconnected and connects to a connection not opened before.
C18_CloseReleasesOnce ==
  /\ \A i \in CloseStarts :
       LET c == p_log[i].call
           seen == p_log[i].conn
       IN /\ Cardinality(EventsOf(c, "connection.close")) = (IF seen = None THEN 0 ELSE 1)
          /\ \A j \in EventsOf(c, "connection.close") : p_log[j].conn = seen /\ seen \in closed
          /\ EventsOf(c, "raise") = {}
          /\ \E j \in EventsOf(c, "return") : j > i /\ p_log[j].conn = None
          /\ \A j \in EventsOf(c + 1, "query") : p_log[j].conn = None
          /\ \A j \in EventsOf(c + 1, "connect") :
               Succeeded(j) =>
                 /\ p_log[j].conn \notin {p_log[k].conn : k \in 1..(j - 1)}
                 /\ \A k \in EventsOf(c + 1, "execute") : p_log[k].conn = p_log[j].conn
  /\ \A x \in 1..opened :
       Cardinality({i \in DOMAIN p_log : p_log[i].op = "connection.close" /\ p_log[i].conn = x}) <= 1
  /\ (p_log # <<>> /\ p_log[Len(p_log)].op = "return" /\ p_log[Len(p_log)].call \in {p_log[i].call : i \in CloseStarts})
       => connection = None

\* A query connected, close() closed its connection, a second close() did nothing and
\* another query opened a second connection.
C18_Witness ==
  /\ \E i, j \in CloseStarts : i < j /\ p_log[i].conn = 1 /\ p_log[j].conn = None
  /\ closed = {1}
  /\ connection = 2
  /\ AllIdle
  /\ p_result[1] # NoDataFrame

\* C19: when execute or fetchall fails, the query() ends at once with that same error,
\* having connected at most once and executed once, the handle is the connection the
\* statement was executed on, and a query() made next starts with that handle and does
\* not connect.
C19_QueryFailureNotRetried ==
  \A i \in DOMAIN p_log :
    (p_log[i].op \in {"execute", "fetchall"} /\ ~Succeeded(i)) =>
      LET c == p_log[i].call
      IN /\ i < Len(p_log)
         /\ p_log[i + 1] = Event(c, "raise", p_log[i].conn, p_log[i].err)
         /\ p_log[i].conn # None
         /\ Cardinality(EventsOf(c, "connect")) <= 1
         /\ Cardinality(EventsOf(c, "execute")) = 1
         /\ EventsOf(c, "fetchall") \subseteq {i}
         /\ \A j \in EventsOf(c + 1, "query") :
              /\ p_log[j].conn = p_log[i].conn
              /\ EventsOf(c + 1, "connect") = {}
         /\ (c = p_ncalls) => (connection = p_log[i].conn /\ p_error[1] = <<p_log[i].err>>)

\* An execute failed in a query() that had connected, and the next query() returned its
\* rows over the same connection.
C19_Witness ==
  /\ \E i \in DOMAIN p_log :
       /\ p_log[i].op = "execute"
       /\ ~Succeeded(i)
       /\ EventsOf(p_log[i].call, "connect") # {}
       /\ \E j \in EventsOf(p_log[i].call + 1, "fetchall") :
            Succeeded(j) /\ p_log[j].conn = p_log[i].conn
  /\ opened = 1
  /\ connection = 1
  /\ p_result[1] # NoDataFrame

\* The two query() calls both found the handle None and both got past connecting.
BothConnectedFromNone ==
  /\ Cardinality(StartedDisconnected) = 2
  /\ \A i \in StartedDisconnected :
       /\ \E g \in EventsOf(p_log[i].call, "get_credentials") : Succeeded(g)
       /\ \A k \in EventsOf(p_log[i].call, "connect") : Succeeded(k)
  /\ \A t \in Threads : t_call[t] > 0 /\ t_pc[t] \notin {"_get_credentials", "connect"}

\* C20: when two interleaved query() calls on a disconnected client both found the
\* handle None and both got past connecting, each opened a connection of its own, the
\* handle holds the later one, and the earlier one is neither held nor closed.
C20_BothConnectOneLeaks ==
  BothConnectedFromNone =>
    /\ \A i \in StartedDisconnected : Cardinality(EventsOf(p_log[i].call, "connect")) = 1
    /\ Cardinality(ConnectsInQueries) = 2
    /\ \E x \in Leaked : \E k \in ConnectsInQueries : p_log[k].conn = x /\ x < connection
    /\ \E k \in ConnectsInQueries : p_log[k].conn = connection

\* Both calls saw no connection, both connected, both returned, one connection leaked.
C20_Witness ==
  /\ BothConnectedFromNone
  /\ AllIdle
  /\ \A t \in Threads : p_result[t] # NoDataFrame
  /\ Leaked # {}
  /\ p_module = "rsq_aws"

\* ------------------------------------------ S3: paths
MaxDepth == 2   \* deepest nesting of folders in a generated path

\* A path is the sequence of its parts: names, "/" and ".".
DotJson == <<".", "json">>
DotParquet == <<".", "parquet">>

\* str.endswith
EndsWith(str, suffix) ==
  /\ Len(str) >= Len(suffix)
  /\ SubSeq(str, Len(str) - Len(suffix) + 1, Len(str)) = suffix

\* The part of a path after its last "/".
LastSegment(str) ==
  LET slashes == {i \in DOMAIN str : str[i] = "/"}
      last == IF slashes = {} THEN 0 ELSE CHOOSE i \in slashes : \A j \in slashes : j <= i
  IN SubSeq(str, last + 1, Len(str))

\* rsq_utils.paths.clean_path, as the tests of this repository show it: a path to a file
\* is left as it is, a path to a folder is given its closing "/".
clean_path(str) ==
  IF str = <<>> \/ str[Len(str)] = "/" \/ "." \in Range(LastSegment(str))
  THEN str
  ELSE Append(str, "/")

\* The folders the generated paths lie in.
RECURSIVE FoldersUpTo(_)
FoldersUpTo(d) ==
  IF d = 0 THEN {<<>>}
  ELSE FoldersUpTo(d - 1) \cup {f \o <<"dir", "/">> : f \in FoldersUpTo(d - 1)}

FileSuffixes ==
  {<<>>, <<"/">>, DotJson, DotParquet, <<".", "txt">>, <<".", "json", ".", "txt">>,
   <<".", "txt", ".", "json">>, <<".", "json", "/">>}
UploadPaths == {f \o <<"test">> \o sfx : f \in FoldersUpTo(MaxDepth), sfx \in FileSuffixes}

\* ------------------------------------------ S3: upload_object
\* The values handed to upload_object: their type, and whether json.dumps (of a dict)
\* or to_parquet (of a DataFrame) accepts them.
DataTypes == {"dict", "DataFrame", "object", "list", "str", "NoneType"}
DataValues ==
  [type : {"dict", "DataFrame"}, serializable : BOOLEAN]
    \cup [type : DataTypes \ {"dict", "DataFrame"}, serializable : {FALSE}]
ClientErrors == {"ClientError"}

Returned(v) == [status |-> "returned", value |-> <<v>>]
RaisedException(msg) == [status |-> "raised", value |-> msg]
Unsupported == <<"Unsupported file type. Only .json and .parquet files are supported.">>

PutObject(key, body, contentType) ==
  [api |-> "put_object", Key |-> key, Body |-> body, ContentType |-> contentType]
\* The bucket after a put_object.
Put(objects, key, body) ==
  [k \in (DOMAIN objects) \cup {key} |-> IF k = key THEN body ELSE objects[k]]

\* _upload_json_object
_upload_json_object(data, key, failure) ==
  IF ~data.serializable
  THEN /\ s3_result' = RaisedException(<<"Failed to upload JSON file to S3: ", "TypeError">>)
       /\ UNCHANGED <<s3_calls, s3_objects>>
  ELSE LET json_data == [format |-> "json", of |-> data]
       IN /\ s3_calls' = Append(s3_calls, PutObject(key, json_data, "application/json"))
          /\ IF failure = NoFault
             THEN /\ s3_objects' = Put(s3_objects, key, json_data)
                  /\ s3_result' = Returned("JSON file uploaded successfully!")
             ELSE /\ s3_result' = RaisedException(<<"Failed to upload JSON file to S3: ", failure>>)
                  /\ UNCHANGED s3_objects

\* _upload_parquet_object
_upload_parquet_object(data, key, failure) ==
  IF ~data.serializable
  THEN /\ s3_result' = RaisedException(<<"Failed to upload Parquet file to S3: ", "ArrowInvalid">>)
       /\ UNCHANGED <<s3_calls, s3_objects>>
  ELSE LET parquet == [format |-> "parquet", of |-> data]
       IN /\ s3_calls' = Append(s3_calls, PutObject(key, parquet, "application/octet-stream"))
          /\ IF failure = NoFault
             THEN /\ s3_objects' = Put(s3_objects, key, parquet)
                  /\ s3_result' = Returned("Parquet file uploaded successfully!")
             ELSE /\ s3_result' = RaisedException(<<"Failed to upload Parquet file to S3: ", failure>>)
                  /\ UNCHANGED s3_objects

notStore == <<single, concVars, psyVars, pf_template, pf_parameters, pf_result>>

\* upload_object that looks at the extension alone.
UploadObjectByExtension ==
  /\ s3_op = NoOp
  /\ \E data \in DataValues, str \in UploadPaths, failure \in {NoFault} \cup ClientErrors :
       LET key == clean_path(str)
       IN /\ s3_op' = [name |-> "upload_object", data |-> data, path |-> str,
                       before |-> s3_objects]
          /\ IF EndsWith(key, DotJson)
             THEN _upload_json_object(data, key, failure)
             ELSE IF EndsWith(key, DotParquet)
                  THEN _upload_parquet_object(data, key, failure)
                  ELSE /\ s3_result' = RaisedException(Unsupported)
                       /\ UNCHANGED <<s3_calls, s3_objects>>
  /\ UNCHANGED notStore

\* upload_object
UploadObject ==
  /\ s3_op = NoOp
  /\ \E data \in DataValues, str \in UploadPaths, failure \in {NoFault} \cup ClientErrors :
       LET key == clean_path(str)
       IN /\ s3_op' = [name |-> "upload_object", data |-> data, path |-> str,
                       before |-> s3_objects]
          /\ IF EndsWith(key, DotJson) /\ data.type = "dict"
             THEN _upload_json_object(data, key, failure)
             ELSE IF EndsWith(key, DotParquet) /\ data.type = "DataFrame"
                  THEN _upload_parquet_object(data, key, failure)
                  ELSE /\ s3_result' = RaisedException(Unsupported)
                       /\ UNCHANGED <<s3_calls, s3_objects>>
  /\ UNCHANGED notStore

\* An S3 client on a bucket that is empty or holds one object.
UploadInit ==
  /\ BotoIdle
  /\ PsyIdle
  /\ s3_op = NoOp
  /\ \/ s3_objects = <<>>
     \/ s3_objects = Put(<<>>, <<"test", ".", "json">>, [format |-> "json", of |-> "old"])
  /\ s3_calls = <<>>
  /\ s3_result = NoResult
  /\ pf_template = <<>>
  /\ pf_parameters = <<>>
  /\ pf_result = NoResult

UploadNext == UploadObject

\* One upload_object call.
UploadSpec == UploadInit /\ [][UploadNext]_vars

\* The message of the exception says the upload failed.
SaysFailedToUpload(r) ==
  /\ r.status = "raised"
  /\ r.value[1] \in {"Failed to upload JSON file to S3: ",
                      "Failed to upload Parquet file to S3: ",
                      "Failed to upload file to S3: "}
Uploading == s3_op.name = "upload_object"
PutCalls == SelectSeq(s3_calls, LAMBDA c : c.api = "put_object")

C22_NonDictToJsonFailsToUpload ==
  (Uploading /\ EndsWith(s3_op.path, DotJson) /\ s3_op.data.type # "dict")
    => SaysFailedToUpload(s3_result)

\* ------------------------------------------ S3: copy_object, delete
\* The keys the copies are made between: files with an extension and one without.
CopyKeys ==
  {<<"source", ".", "json">>, <<"dest", ".", "json">>, <<"dir", "/", "source", ".", "parquet">>,
   <<"dir", "/", "data">>}
BodyOf(key) == [format |-> "bytes", of |-> key]
\* The bucket that holds the given keys.
BucketOf(keys) == [k \in keys |-> BodyOf(k)]
\* The bucket after a delete_object.
Remove(objects, key) == [k \in (DOMAIN objects) \ {key} |-> objects[k]]

CopyCall(source, destination, outcome) ==
  [api |-> "copy_object", CopySource |-> source, Key |-> destination, outcome |-> outcome]
DeleteCall(key, outcome) == [api |-> "delete_object", Key |-> key, outcome |-> outcome]

\* What s3.copy_object answers: the source must exist and the service must answer.
CopyOutcome(objects, source, failure) ==
  IF failure # NoFault THEN failure
  ELSE IF source \notin DOMAIN objects THEN "NoSuchKey" ELSE NoFault

\* delete: the calls made, the bucket left and the result, given the bucket it starts on.
delete(objects, str, failure) ==
  LET key == clean_path(str)
  IN IF failure = NoFault
     THEN [calls |-> <<DeleteCall(key, NoFault)>>,
           objects |-> Remove(objects, key),
           result |-> Returned("File deleted successfully!")]
     ELSE [calls |-> <<DeleteCall(key, failure)>>,
           objects |-> objects,
           result |-> RaisedException(<<"Failed to delete file from S3: ", failure>>)]

\* copy_object
CopyObject ==
  /\ s3_op = NoOp
  /\ \E source \in CopyKeys, destination \in CopyKeys, must_delete \in BOOLEAN,
        copyFailure \in {NoFault} \cup ClientErrors, deleteFailure \in {NoFault} \cup ClientErrors :
       LET outcome == CopyOutcome(s3_objects, source, copyFailure)
           copied == Put(s3_objects, destination, s3_objects[source])
           deleted == delete(copied, source, deleteFailure)
       IN /\ s3_op' = [name |-> "copy_object", source_path |-> source,
                       destination_path |-> destination, must_delete |-> must_delete,
                       before |-> s3_objects]
          /\ IF outcome # NoFault
             THEN /\ s3_calls' = <<CopyCall(source, destination, outcome)>>
                  /\ s3_result' = RaisedException(<<"Failed to copy object: ", outcome>>)
                  /\ UNCHANGED s3_objects
             ELSE IF ~must_delete
                  THEN /\ s3_calls' = <<CopyCall(source, destination, outcome)>>
                       /\ s3_objects' = copied
                       /\ s3_result' = Returned("None")
                  ELSE /\ s3_calls' = <<CopyCall(source, destination, outcome)>> \o deleted.calls
                       /\ s3_objects' = deleted.objects
                       /\ s3_result' =
                            IF deleted.result.status = "raised"
                            THEN RaisedException(<<"Failed to copy object: ">> \o deleted.result.value)
                            ELSE Returned("None")
  /\ UNCHANGED notStore

\* An S3 client on a bucket that holds some of the keys.
CopyInit ==
  /\ BotoIdle
  /\ PsyIdle
  /\ s3_op = NoOp
  /\ \E keys \in SUBSET CopyKeys : s3_objects = BucketOf(keys)
  /\ s3_calls = <<>>
  /\ s3_result = NoResult
  /\ pf_template = <<>>
  /\ pf_parameters = <<>>
  /\ pf_result = NoResult

CopyNext == CopyObject

\* One copy_object call.
CopySpec == CopyInit /\ [][CopyNext]_vars

Copying == s3_op.name = "copy_object"
DeletesIssued == {i \in DOMAIN s3_calls : s3_calls[i].api = "delete_object"}
CopySucceeded ==
  \E i \in DOMAIN s3_calls : s3_calls[i].api = "copy_object" /\ s3_calls[i].outcome = NoFault

\* C23: copy_object issues a delete only of its source, only once and only after the
\* copy call succeeded; with must_delete it issues that delete exactly once after a
\* successful copy; without must_delete, or when the copy call fails, it issues no delete
\* and the source object is in the bucket as before.
C23_DeleteOnlyAfterCopy ==
  Copying =>
    /\ Cardinality(DeletesIssued) <= 1
    /\ \A i \in DeletesIssued :
         /\ s3_calls[i].Key = s3_op.source_path
         /\ \E j \in 1..(i - 1) : s3_calls[j].api = "copy_object" /\ s3_calls[j].outcome = NoFault
    /\ (s3_op.must_delete /\ CopySucceeded) => Cardinality(DeletesIssued) = 1
    /\ (~s3_op.must_delete \/ ~CopySucceeded) =>
         /\ DeletesIssued = {}
         /\ s3_op.source_path \in DOMAIN s3_op.before =>
              /\ s3_op.source_path \in DOMAIN s3_objects
              /\ s3_op.source_path # s3_op.destination_path =>
                   s3_objects[s3_op.source_path] = s3_op.before[s3_op.source_path]

\* ------------------------------------------ S3: combine_parquet_files
MaxFiles == 3   \* longest list of files handed to combine_parquet_files

\* The entries a list of files is made of: two Parquet files, a JSON file, a folder.
ListedNames ==
  {<<"a", ".", "parquet">>, <<"b", ".", "parquet">>, <<"c", ".", "json">>, <<"notes">>}
ParquetKeys == {n \in ListedNames : EndsWith(n, DotParquet)}
Schemas == {"id:int64", "id:string"}
\* The rows a Parquet file of the bucket may hold; a file may hold none.
RowsOf(key) == {<<>>, <<<<key[1], 1>>>>, <<<<key[1], 1>>, <<key[1], 2>>>>}
ParquetBodies(key) ==
  {[format |-> "parquet", of |-> [schema |-> sc, rows |-> rows]] : sc \in Schemas, rows \in RowsOf(key)}
BatchSizes == {1, 2}

\* ParquetFile.iter_batches: the rows in batches of at most batch_size.
RECURSIVE iter_batches(_, _)
iter_batches(rows, batch_size) ==
  IF rows = <<>> THEN <<>>
  ELSE <<SubSeq(rows, 1, Min(batch_size, Len(rows)))>>
         \o iter_batches(SubSeq(rows, Min(batch_size, Len(rows)) + 1, Len(rows)), batch_size)

GetObject(key, outcome) == [api |-> "get_object", Key |-> key, outcome |-> outcome]
NoWriter == "None"
\* The state of _combine_parquet_files_into_output_buffer before its loop.
EmptyBuffer == [calls |-> <<>>, writer |-> NoWriter, rows |-> <<>>, tables |-> 0, raised |-> <<>>]

\* One turn of the loop: _get_parquet_object_via_pyarrow(file), then each batch is
\* written with the writer that the first batch of all opened.
ReadFile(objects, acc, file, batch_size) ==
  IF file \notin DOMAIN objects
  THEN [acc EXCEPT !.calls = Append(@, GetObject(file, "NoSuchKey")),
                   !.raised = <<"Failed to get Parquet file: ", "NoSuchKey">>]
  ELSE LET content == objects[file].of
           batches == iter_batches(content.rows, batch_size)
           read == [acc EXCEPT !.calls = Append(@, GetObject(file, NoFault))]
       IN IF batches = <<>> THEN read
          ELSE IF read.writer \notin {NoWriter, content.schema}
               THEN [read EXCEPT !.raised = <<"Table schema does not match schema used to create file">>]
               ELSE [read EXCEPT !.writer = content.schema,
                                 !.rows = @ \o content.rows,
                                 !.tables = @ + Len(batches)]

\* _combine_parquet_files_into_output_buffer: the loop over the files from the k-th on.
RECURSIVE ReadFiles(_, _, _, _, _)
ReadFiles(objects, acc, files, k, batch_size) ==
  IF k > Len(files) \/ acc.raised # <<>> THEN acc
  ELSE ReadFiles(objects, ReadFile(objects, acc, files[k], batch_size), files, k + 1, batch_size)

\* A list of files kept whole.
EveryEntry(files) == files
\* files = [file for file in files if file.endswith(".parquet")]
OnlyParquet(files) == SelectSeq(files, LAMBDA f : EndsWith(f, DotParquet))

\* combine_parquet_files
CombineParquetFiles ==
  /\ s3_op = NoOp
  /\ \E listed \in SeqsUpTo(ListedNames, MaxFiles), batch_size \in BatchSizes,
        failure \in {NoFault} \cup ClientErrors :
       LET files == OnlyParquet(listed)
           output_path == <<"combined", ".", "parquet">>
           buffer == ReadFiles(s3_objects, EmptyBuffer, files, 1, batch_size)
           body == [format |-> "parquet", of |-> [schema |-> buffer.writer, rows |-> buffer.rows]]
       IN /\ s3_op' = [name |-> "combine_parquet_files", output_path |-> output_path,
                       files |-> listed, batch_size |-> batch_size, before |-> s3_objects]
          /\ IF files = <<>>
             THEN /\ s3_result' = RaisedException(<<"No Parquet files found in the provided list">>)
                  /\ UNCHANGED <<s3_calls, s3_objects>>
             ELSE IF buffer.raised # <<>>
                  THEN /\ s3_calls' = buffer.calls
                       /\ s3_result' = RaisedException(buffer.raised)
                       /\ UNCHANGED s3_objects
                  ELSE IF buffer.writer = NoWriter
                       THEN /\ s3_calls' = buffer.calls
                            /\ s3_result' = RaisedException(<<"No data was written. Please check the input files.">>)
                            /\ UNCHANGED s3_objects
                       ELSE /\ s3_calls' = Append(buffer.calls, PutObject(output_path, body, "<none>"))
                            /\ IF failure = NoFault
                               THEN /\ s3_objects' = Put(s3_objects, output_path, body)
                                    /\ s3_result' = Returned("None")
                               ELSE /\ s3_result' = RaisedException(<<"Failed to upload file to S3: ", failure>>)
                                    /\ UNCHANGED s3_objects
  /\ UNCHANGED notStore

\* An S3 client on a bucket that holds some of the Parquet files, and other objects.
CombineInit ==
  /\ BotoIdle
  /\ PsyIdle
  /\ s3_op = NoOp
  /\ \E keys \in SUBSET ParquetKeys : \E bodies \in [keys -> UNION {ParquetBodies(k) : k \in keys}] :
       /\ \A k \in keys : bodies[k] \in ParquetBodies(k)
       /\ s3_objects = [k \in keys \cup {<<"c", ".", "json">>} |->
                          IF k \in keys THEN bodies[k]
                          ELSE [format |-> "json", of |-> [schema |-> "<none>", rows |-> <<>>]]]
  /\ s3_calls = <<>>
  /\ s3_result = NoResult
  /\ pf_template = <<>>
  /\ pf_parameters = <<>>
  /\ pf_result = NoResult

CombineNext == CombineParquetFiles

\* One combine_parquet_files call.
CombineSpec == CombineInit /\ [][CombineNext]_vars

\* ------------------------------------------ reading a combine_parquet_files call
Combining == s3_op.name = "combine_parquet_files"
\* The entries of the list whose name ends in .parquet, in list order.
ListedParquet == SelectSeq(s3_op.files, LAMBDA f : EndsWith(f, DotParquet))
ReadCalls == SelectSeq(s3_calls, LAMBDA c : c.api = "get_object")
KeysRead == [i \in DOMAIN ReadCalls |-> ReadCalls[i].Key]
AllListedExist == \A i \in DOMAIN ListedParquet : ListedParquet[i] \in DOMAIN s3_op.before
\* The rows of the listed Parquet files, in list order.
RECURSIVE RowsFrom(_)
RowsFrom(k) ==
  IF k > Len(ListedParquet) THEN <<>>
  ELSE s3_op.before[ListedParquet[k]].of.rows \o RowsFrom(k + 1)
RECURSIVE RowCountFrom(_)
RowCountFrom(k) ==
  IF k > Len(ListedParquet) THEN 0
  ELSE Len(s3_op.before[ListedParquet[k]].of.rows) + RowCountFrom(k + 1)
\* The listed files that hold rows have one schema.
OneSchema ==
  \A i, j \in DOMAIN ListedParquet :
    LET a == s3_op.before[ListedParquet[i]].of
        b == s3_op.before[ListedParquet[j]].of
    IN (a.rows # <<>> /\ b.rows # <<>>) => a.schema = b.schema
IsPrefix(a, b) == Len(a) <= Len(b) /\ a = SubSeq(b, 1, Len(a))

\* C24 as claimed, for lists whose Parquet files all exist: every listed entry ending in
\* .parquet is read once, in list order, nothing else is read, and exactly one upload is
\* made, holding all rows of the files read in that order; with no such entry the call
\* raises and reads and uploads nothing.
C24_ReadsEachUploadsOnce ==
  (Combining /\ AllListedExist) =>
    IF ListedParquet = <<>>
    THEN s3_result.status = "raised" /\ s3_calls = <<>>
    ELSE /\ KeysRead = ListedParquet
         /\ Len(PutCalls) = 1
         /\ PutCalls[1].Body.of.rows = RowsFrom(1)
         /\ Len(PutCalls[1].Body.of.rows) = RowCountFrom(1)

\* C24 as amended: the listed entries ending in .parquet are read in list order, each
\* once, up to the first read or write that fails, and nothing else is read; when all of
\* them exist, hold at least one row and the ones with rows share a schema, all are read
\* and exactly one upload follows, holding all their rows in that order; in every other
\* case the call raises and uploads nothing ('No data was written' when the files exist
\* and hold no row); with no such entry it raises and reads and uploads nothing.
C24_ReadsInOrderUploadsData ==
  Combining =>
    IF ListedParquet = <<>>
    THEN /\ s3_result = RaisedException(<<"No Parquet files found in the provided list">>)
         /\ s3_calls = <<>>
         /\ s3_objects = s3_op.before
    ELSE /\ IsPrefix(KeysRead, ListedParquet)
         /\ s3_calls = ReadCalls \o PutCalls
         /\ \A i \in 1..(Len(ReadCalls) - 1) : ReadCalls[i].outcome = NoFault
         /\ IF AllListedExist /\ RowCountFrom(1) > 0 /\ OneSchema
            THEN /\ KeysRead = ListedParquet
                 /\ Len(PutCalls) = 1
                 /\ PutCalls[1].Key = s3_op.output_path
                 /\ PutCalls[1].Body.of.rows = RowsFrom(1)
                 /\ Len(PutCalls[1].Body.of.rows) = RowCountFrom(1)
                 /\ s3_result.status = "returned" =>
                      s3_objects[s3_op.output_path] = PutCalls[1].Body
            ELSE /\ PutCalls = <<>>
                 /\ s3_result.status = "raised"
                 /\ s3_objects = s3_op.before
                 /\ (AllListedExist /\ RowCountFrom(1) = 0) =>
                      /\ KeysRead = ListedParquet
                      /\ s3_result = RaisedException(<<"No data was written. Please check the input files.">>)

\* Two Parquet files around a JSON entry were read in order, in batches of one row, and
\* their four rows were uploaded once.
C24_Witness ==
  /\ Combining
  /\ s3_op.files = <<<<"b", ".", "parquet">>, <<"c", ".", "json">>, <<"a", ".", "parquet">>>>
  /\ s3_op.batch_size = 1
  /\ KeysRead = <<<<"b", ".", "parquet">>, <<"a", ".", "parquet">>>>
  /\ Len(PutCalls) = 1
  /\ PutCalls[1].Body.of.rows = <<<<"b", 1>>, <<"b", 2>>, <<"a", 1>>, <<"a", 2>>>>
  /\ s3_result.status = "returned"

\* ------------------------------------------ S3: get_directory_tree
\* The keys a bucket may hold: files at the root and in folders, folder markers, a file
\* without an extension and a folder whose name has a dot.
TreeKeys ==
  {<<"a", ".", "json">>,
   <<"README">>,
   <<"dir", "/">>,
   <<"dir", "/", "b", ".", "json">>,
   <<"dir", "/", "sub", "/">>,
   <<"dir", "/", "sub", "/", "c", ".", "parquet">>,
   <<"dir", "/", "dir", "/", "d", ".", "json">>,
   <<"other", "/", "e", ".", "json">>,
   <<"v1", ".", "0", "/", "f", ".", "json">>}
TreePaths == {<<>>, <<"dir">>, <<"dir", "/">>, <<"dir", "/", "sub">>, <<"other", "/">>, <<"v1", ".", "0">>, <<"none">>}

StartsWith(str, prefix) == Len(prefix) <= Len(str) /\ SubSeq(str, 1, Len(prefix)) = prefix
\* _fetch_files_from_s3_path: the keys list_objects_v2 returns for a prefix, all pages.
_fetch_files_from_s3_path(objects, prefix) == {k \in DOMAIN objects : StartsWith(k, prefix)}
\* str.replace(old, ""): every occurrence of old is taken out.
RECURSIVE replace(_, _)
replace(str, old) ==
  IF old = <<>> \/ str = <<>> THEN str
  ELSE IF StartsWith(str, old) THEN replace(SubSeq(str, Len(old) + 1, Len(str)), old)
       ELSE <<str[1]>> \o replace(Tail(str), old)
\* str.split("/")[0]
FirstSegment(str) ==
  LET slashes == {i \in DOMAIN str : str[i] = "/"}
  IN IF slashes = {} THEN str
     ELSE SubSeq(str, 1, (CHOOSE i \in slashes : \A j \in slashes : i <= j) - 1)

\* get_directory: the names directly under the path, or the exception of an empty listing.
get_directory(objects, str) ==
  LET path == clean_path(str)
      files == _fetch_files_from_s3_path(objects, path)
  IN IF files = {}
     THEN RaisedException(<<"No files found in directory: ", path>>)
     ELSE Returned({FirstSegment(replace(f, path)) : f \in files} \ {<<>>})

_extract_files_from_directory_data(directory_data) == {f \in directory_data : "." \in Range(f)}
_extract_folders_from_directory_data(directory_data) == {f \in directory_data : "." \notin Range(f)}
_create_new_path(old_path, suffix) == clean_path(old_path) \o clean_path(suffix)

\* get_directory_tree: the outcomes of the call. The tree is a record of the names under
\* 'files' and of the sub-tree of each folder; an exception of any sub-call ends the call,
\* and which folder is visited first is not fixed (the names come out of a set).
RECURSIVE get_directory_tree(_, _)
get_directory_tree(objects, str) ==
  LET path == clean_path(str)
      directory_data == get_directory(objects, path)
  IN IF directory_data.status = "raised" THEN {directory_data}
     ELSE LET files == _extract_files_from_directory_data(directory_data.value[1])
              folders == _extract_folders_from_directory_data(directory_data.value[1])
              subtrees == [f \in folders |-> get_directory_tree(objects, _create_new_path(path, f))]
              failures == UNION {{o \in subtrees[f] : o.status = "raised"} : f \in folders}
          IN IF failures # {} THEN failures
             ELSE {Returned([files |-> files,
                             folders |-> [f \in folders |->
                                            (CHOOSE o \in subtrees[f] : TRUE).value[1]]])}

\* get_directory_tree
GetDirectoryTree ==
  /\ s3_op = NoOp
  /\ \E str \in TreePaths : \E outcome \in get_directory_tree(s3_objects, str) :
       /\ s3_op' = [name |-> "get_directory_tree", path |-> str, before |-> s3_objects]
       /\ s3_result' = outcome
  /\ UNCHANGED <<s3_objects, s3_calls>>
  /\ UNCHANGED notStore

TreeInit ==
  /\ BotoIdle
  /\ PsyIdle
  /\ s3_op = NoOp
  /\ \E keys \in SUBSET TreeKeys : s3_objects = BucketOf(keys)
  /\ s3_calls = <<>>
  /\ s3_result = NoResult
  /\ pf_template = <<>>
  /\ pf_parameters = <<>>
  /\ pf_result = NoResult
TreeNext == GetDirectoryTree
TreeSpec == TreeInit /\ [][TreeNext]_vars

Treeing == s3_op.name = "get_directory_tree"
\* The folder a path names: the path closed by a '/'.
FolderOf(str) == IF str = <<>> \/ str[Len(str)] = "/" THEN str ELSE Append(str, "/")
\* The key hierarchy below a folder: the objects located directly in it and one tree per
\* immediate subfolder.
RECURSIVE KeyHierarchy(_, _)
KeyHierarchy(objects, folder) ==
  LET below == {SubSeq(k, Len(folder) + 1, Len(k)) : k \in _fetch_files_from_s3_path(objects, folder)}
      located == {r \in below : r # <<>> /\ "/" \notin Range(r)}
      subfolders == {FirstSegment(r) : r \in {x \in below : "/" \in Range(x)}}
  IN [files |-> located,
      folders |-> [f \in subfolders |-> KeyHierarchy(objects, folder \o f \o <<"/">>)]]

\* C25: whatever keys the bucket holds under the path, get_directory_tree returns the
\* tree of the key hierarchy: under 'files' the objects located directly in the folder
\* and one sub-tree per immediate subfolder, built the same way.
C25_TreeMirrorsKeys ==
  (Treeing /\ _fetch_files_from_s3_path(s3_op.before, FolderOf(s3_op.path)) # {}) =>
    s3_result = Returned(KeyHierarchy(s3_op.before, FolderOf(s3_op.path)))

\* ------------------------------------------ PathFactory.generate
\* The placeholders a template may hold and the name each one stands for.
Placeholders == {"{year}", "{file}"}
NameOf(token) == IF token = "{year}" THEN "year" ELSE "file"
\* The templates: a folder part, then a file part with or without an extension.
TemplateFolders == {<<>>, <<"{year}", "/">>, <<"data", "/">>, <<"v1", ".", "0", "/">>}
TemplateFiles ==
  {<<>>, <<"{file}">>, <<"data">>, <<"data", ".", "json">>, <<"data", ".", "txt">>,
   <<"{file}", ".", "parquet">>, <<"{year}", ".", "{file}">>}
Templates == {d \o f : d \in TemplateFolders, f \in TemplateFiles}

ParameterKeys == {"year", "file", "extra"}
\* The values a parameter may take: texts, among them one with a '.', an empty one, one
\* with a '/', one in upper case and one with a space, and a number.
StrValue(text) == [type |-> "str", text |-> text]
ParameterValues ==
  {StrValue(<<"2024">>), StrValue(<<"data", ".", "txt">>), StrValue(<<>>),
   StrValue(<<"a", "/", "b">>), StrValue(<<"US">>), StrValue(<<"a", " ", "b">>),
   [type |-> "int", text |-> <<"123">>]}
\* A dict of parameters: its items in insertion order, no key twice.
ParameterMaps ==
  {d \in SeqsUpTo([key : ParameterKeys, value : ParameterValues], Cardinality(ParameterKeys)) :
     \A i, j \in DOMAIN d : d[i].key = d[j].key => i = j}
KeysOf(parameters) == {parameters[i].key : i \in DOMAIN parameters}

\* rsq_utils.paths.find_template_params: the names in braces of the template.
find_template_params(template_path) ==
  {NameOf(token) : token \in Range(template_path) \cap Placeholders}

\* str.lower()
lower(text) == [i \in DOMAIN text |-> IF text[i] = "US" THEN "us" ELSE text[i]]
\* The five checks of one parameter value, in their order: the message of the first one
\* that fails, or nothing.
ParamError(param) ==
  IF param.type # "str" THEN param.text \o <<" must be a string">>
  ELSE IF param.text = <<>> THEN <<" cannot be empty">>
  ELSE IF "/" \in Range(param.text) THEN param.text \o <<" cannot contain '/'">>
  ELSE IF lower(param.text) # param.text THEN param.text \o <<" must be in lowercase">>
  ELSE IF " " \in Range(param.text) THEN param.text \o <<" must not contain spaces">>
  ELSE <<>>

\* A test of the keys that lets extra keys through.
ParametersCover(keys, template_params) == template_params \subseteq keys
\* set(parameters.keys()) != set(template_params), negated
ParametersMatch(keys, template_params) == keys = template_params

\* _validate_parameters: the message of the exception it raises, or nothing.
_validate_parameters(template_path, parameters) ==
  LET template_params == find_template_params(template_path)
      failing == {i \in DOMAIN parameters : ParamError(parameters[i].value) # <<>>}
  IN IF ~ParametersMatch(KeysOf(parameters), template_params)
     THEN <<"Template parameters should match parameter keys provided">>
     ELSE IF template_params = {} \/ failing = {} THEN <<>>
          ELSE ParamError(parameters[CHOOSE i \in failing : \A j \in failing : i <= j].value)

\* str.split(".")[-1]
AfterLastDot(str) ==
  LET dots == {i \in DOMAIN str : str[i] = "."}
  IN IF dots = {} THEN str
     ELSE SubSeq(str, (CHOOSE i \in dots : \A j \in dots : j <= i) + 1, Len(str))
valid_files == {<<"parquet">>, <<"json">>}
\* _validate_file_type: the message of the exception it raises, or nothing.
_validate_file_type(template_path) ==
  IF "." \in Range(template_path) /\ AfterLastDot(template_path) \notin valid_files
  THEN <<"Invalid file type '">> \o AfterLastDot(template_path) \o <<"'. Accepted file types are ['parquet', 'json']">>
  ELSE <<>>

\* _format_path_with_parameters: template_path.format(**parameters)
RECURSIVE _format_path_with_parameters(_, _)
_format_path_with_parameters(template_path, parameters) ==
  IF template_path = <<>> THEN <<>>
  ELSE LET token == Head(template_path)
           text == IF token \in Placeholders
                   THEN parameters[CHOOSE i \in DOMAIN parameters :
                                     parameters[i].key = NameOf(token)].value.text
                   ELSE <<token>>
       IN text \o _format_path_with_parameters(Tail(template_path), parameters)

generate(template_path, parameters) ==
  IF _validate_parameters(template_path, parameters) # <<>>
  THEN RaisedException(_validate_parameters(template_path, parameters))
  ELSE IF _validate_file_type(template_path) # <<>>
       THEN RaisedException(_validate_file_type(template_path))
       ELSE Returned(clean_path(_format_path_with_parameters(template_path, parameters)))

notPath == <<single, concVars, psyVars, s3_op, s3_objects, s3_calls, s3_result>>

\* PathFactory.generate
Generate ==
  /\ pf_result = NoResult
  /\ \E template_path \in Templates, parameters \in ParameterMaps :
       /\ pf_template' = template_path
       /\ pf_parameters' = parameters
       /\ pf_result' = generate(template_path, parameters)
  /\ UNCHANGED notPath

PathInit ==
  /\ BotoIdle
  /\ PsyIdle
  /\ StoreIdle
PathNext == Generate
PathSpec == PathInit /\ [][PathNext]_vars

Generated == pf_result # NoResult
MismatchMessage == <<"Template parameters should match parameter keys provided">>

\* C26: generate returns a path only when the set of parameter keys equals the set of
\* placeholders of the template; with a missing or an extra key it raises 'Template
\* parameters should match parameter keys provided' and returns no path.
C26_KeysMustMatchPlaceholders ==
  Generated =>
    /\ pf_result.status = "returned" =>
         KeysOf(pf_parameters) = {NameOf(t) : t \in Range(pf_template) \cap Placeholders}
    /\ KeysOf(pf_parameters) # {NameOf(t) : t \in Range(pf_template) \cap Placeholders} =>
         pf_result = RaisedException(MismatchMessage)

\* An extra key next to the one the template asks for was refused.
C26_Witness ==
  /\ pf_template = <<"{year}", "/", "data", ".", "json">>
  /\ KeysOf(pf_parameters) = {"year", "extra"}
  /\ \A i \in DOMAIN pf_parameters : pf_parameters[i].value = StrValue(<<"2024">>)
  /\ pf_result = RaisedException(MismatchMessage)

\* C30: every path generate returns that has a file extension has the extension parquet
\* or json, whatever the template and the parameter values that passed validation.
C30_OnlyValidExtensions ==
  (Generated /\ pf_result.status = "returned") =>
    LET file == LastSegment(pf_result.value[1])
    IN "." \in Range(file) => AfterLastDot(file) \in {<<"parquet">>, <<"json">>}

\* ------------------------------------------ the status query() decides on
\* C27: query() decides on the status that ended the poll loop: it raises the
\* query-failure error if that response was FAILED and does not raise it if that
\* response was FINISHED, whatever a later describe_statement returns.
C27_DecisionOnLoopEndingStatus ==
  (Terminated /\ FirstLoopEnd # 0) =>
    /\ calls[FirstLoopEnd].Status = "FAILED" =>
         (pc = "raised" /\ error = <<"Query failed: ", errorText>>)
    /\ calls[FirstLoopEnd].Status = "FINISHED" =>
         error # <<"Query failed: ", errorText>>

\* ------------------------------------------ failing to connect, connections left open
\* The calls to the credential store and the driver's connect that raised.
FailedConnecting ==
  {i \in DOMAIN p_log : p_log[i].op \in {"get_credentials", "connect"} /\ ~Succeeded(i)}

\* C28: when fetching the credentials or connecting raises, the call ends there with
\* that error and the handle None, it executes no SQL, and the query() that follows
\* starts disconnected and goes to fetch credentials and connect again.
C28_FailedConnectLeavesDisconnected ==
  \A i \in FailedConnecting :
    LET c == p_log[i].call
    IN /\ i < Len(p_log)
       /\ p_log[i + 1] = Event(c, "raise", None, p_log[i].err)
       /\ \A j \in DOMAIN p_log : p_log[j].call = c => j <= i + 1
       /\ EventsOf(c, "cursor") = {}
       /\ EventsOf(c, "execute") = {}
       /\ (c > 0 /\ c = p_ncalls) => (connection = None /\ p_error[1] = <<p_log[i].err>>)
       /\ c = 0 => (connection = None /\ p_state = "__init__ raised")
       /\ \A j \in EventsOf(c + 1, "query") :
            /\ p_log[j].conn = None
            /\ IF j = Len(p_log)
               THEN t_pc[1] = "_get_credentials"
               ELSE p_log[j + 1].call = c + 1 /\ p_log[j + 1].op = "get_credentials"

\* A query() could not connect, and the query() after it connected and returned its rows.
C28_Witness ==
  \E i \in FailedConnecting :
    /\ p_log[i].op = "connect"
    /\ p_log[i].call > 0
    /\ \E k \in EventsOf(p_log[i].call + 1, "connect") : Succeeded(k)
    /\ \E k \in EventsOf(p_log[i].call + 1, "fetchall") : Succeeded(k)
    /\ AllIdle

\* The connections opened and not closed.
StillOpen == {x \in 1..opened : x \notin closed}

\* C29: with one caller, after any query() and close() calls, returning or raising, at
\* most one connection opened by the client is still open and it is the one the handle
\* holds: each connection ever opened is the current handle or has been closed.
C29_OneOpenConnection ==
  /\ Cardinality(StillOpen) <= 1
  /\ StillOpen \subseteq {connection}
  /\ Leaked = {}
  /\ connection # None => connection \in StillOpen

\* Two connections were opened over queries that returned and raised and a close(): the
\* first is closed, the second is held.
C29_Witness ==
  /\ opened = 2
  /\ closed = {1}
  /\ connection = 2
  /\ AllIdle
  /\ ~NoneRaised
  /\ \E i \in DOMAIN p_log : p_log[i].op = "fetchall" /\ Succeeded(i)

====
